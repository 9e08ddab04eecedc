-------------------------- MODULE TeamLedgerProofs --------------------------
(* Proofs about TeamLedger for every set of tasks, admins and requests and   *)
(* every list of intake phases, and about the commands of TeamCLI that work  *)
(* on it, for any operators and any number of crashes.                       *)
EXTENDS TeamCLI, SequenceTheorems, TLAPS

-----------------------------------------------------------------------------
(* The phase order *)

\* phaseOrder is the intake followed by the five gated phases.
LEMMA PhaseOrderShape ==
    /\ Len(Intake) \in Nat
    /\ Len(phaseOrder) = Len(Intake) + 5
    /\ \A i \in 1..Len(Intake) : phaseOrder[i] = Intake[i]
    /\ \A j \in 1..5 : phaseOrder[Len(Intake) + j] = GatePhases[j]
<1> DEFINE Gates == {"review", "hitl_approval", "repair_execution", "verification", "postmortem"}
           Names == STRING \cup Gates
<1>1. GatePhases \in Seq(Gates) /\ Len(GatePhases) = 5
  BY DEF GatePhases
<1>2. Intake \in Seq(STRING) /\ Len(Intake) \in Nat
  BY LedgerAssumption
<1>3. GatePhases \in Seq(Names) /\ Intake \in Seq(Names)
  BY <1>1, <1>2
<1>4. /\ Len(phaseOrder) = Len(Intake) + Len(GatePhases)
      /\ \A i \in 1..(Len(Intake) + Len(GatePhases)) :
           phaseOrder[i] = IF i <= Len(Intake) THEN Intake[i] ELSE GatePhases[i - Len(Intake)]
  <2> HIDE DEF Names
  <2> QED
    BY <1>3, ConcatProperties, Zenon DEF phaseOrder
<1>5. ASSUME NEW j \in 1..5 PROVE phaseOrder[Len(Intake) + j] = GatePhases[j]
  <2>1. Len(Intake) + j \in 1..(Len(Intake) + Len(GatePhases))
    BY <1>1, <1>2
  <2>2. ~(Len(Intake) + j <= Len(Intake)) /\ (Len(Intake) + j) - Len(Intake) = j
    BY <1>2
  <2> QED
    BY <1>4, <2>1, <2>2, Zenon
<1> QED
  BY <1>1, <1>2, <1>4, <1>5

\* The five gated phases are phases.
LEMMA GatePhasesArePhases ==
    {"review", "hitl_approval", "repair_execution", "verification", "postmortem"} \subseteq Phases
<1>1. \A j \in 1..5 : GatePhases[j] \in Phases
  <2>1. SUFFICES ASSUME NEW j \in 1..5 PROVE GatePhases[j] \in Phases
    BY Zenon
  <2>2. Len(Intake) + j \in 1..Len(phaseOrder)
    BY PhaseOrderShape
  <2> QED
    BY <2>2, PhaseOrderShape, Zenon DEF Phases
<1> QED
  BY <1>1 DEF GatePhases

\* The successor of a phase is a phase; only the approval is followed by the
\* repair, so no Advance of another phase starts it.
LEMMA NextPhaseFacts ==
    ASSUME NEW p \in Phases
    PROVE  /\ nextPhase(p) # "" => nextPhase(p) \in Phases
           /\ nextPhase(p) = "repair_execution" => p = "hitl_approval"
<1> DEFINE n == Len(Intake)
           I == 1..(Len(phaseOrder) - 1)
<1>1. n \in Nat /\ I = 1..(n + 4)
  BY LedgerAssumption, PhaseOrderShape
<1>2. CASE ~\E i \in I : phaseOrder[i] = p
  BY <1>2, Zenon DEF nextPhase
<1>3. CASE \E i \in I : phaseOrder[i] = p
  <2>1. PICK i \in I : phaseOrder[i] = p /\ nextPhase(p) = phaseOrder[1 + i]
    BY <1>3, Zenon DEF nextPhase
  <2>2. nextPhase(p) \in Phases
    BY <2>1, <1>1, PhaseOrderShape DEF Phases
  <2>3. ASSUME nextPhase(p) = "repair_execution" PROVE p = "hitl_approval"
    <3>1. 1 + i > n
      <4>1. SUFFICES ASSUME 1 + i \in 1..n PROVE FALSE
        BY <2>1, <1>1
      <4>2. Intake[1 + i] = GatePhases[3]
        BY <4>1, <2>1, <2>3, PhaseOrderShape, Zenon DEF GatePhases
      <4> QED
        BY <4>1, <4>2, LedgerAssumption
    <3>2. PICK j \in 1..5 : 1 + i = n + j
      <4>1. (1 + i) - n \in 1..5
        BY <2>1, <3>1, <1>1
      <4> QED
        BY <4>1, <2>1, <1>1
    <3>3. GatePhases[j] = "repair_execution"
      BY <3>2, <2>1, <2>3, PhaseOrderShape, Zenon
    <3>4. j = 3
      BY <3>3 DEF GatePhases
    <3>5. i = n + 2
      BY <3>2, <3>4, <1>1
    <3> QED
      BY <3>5, <2>1, PhaseOrderShape DEF GatePhases
  <2> QED
    BY <2>2, <2>3, Zenon
<1> QED
  BY <1>2, <1>3, Zenon

-----------------------------------------------------------------------------
(* Type correctness: what each operation makes of a task is a task *)

\* A task as Initialize creates it is a Task.
LEMMA NewTaskType ==
    ASSUME NEW i \in Incidents, NEW r \in Rooms
    PROVE  NewTask(i, r) \in Task
BY DEF NewTask, Task, phaseStatuses, taskStatuses, NoTime

\* Advance writes known phase statuses.
LEMMA AdvancedPhasesType ==
    ASSUME NEW f \in [Phases -> phaseStatuses], NEW p \in Phases, NEW s \in phaseStatuses
    PROVE  AdvancedPhases(f, p, s) \in [Phases -> phaseStatuses]
BY NextPhaseFacts, Zenon DEF AdvancedPhases, phaseStatuses

\* Advance turns a Task into a Task.
LEMMA AdvancedTaskType ==
    ASSUME NEW k \in Task, NEW p \in Phases, NEW s \in phaseStatuses
    PROVE  AdvancedTask(k, p, s) \in Task
<1>1. k.phases \in [Phases -> phaseStatuses]
  BY Zenon DEF Task
<1>2. AdvancedPhases(k.phases, p, s) \in [Phases -> phaseStatuses]
  BY <1>1, AdvancedPhasesType, Zenon
<1>3. AdvancedStatus(k, p, s) \in taskStatuses
  BY Zenon DEF AdvancedStatus, deriveTaskStatus, taskStatuses
<1> QED
  BY <1>2, <1>3, Zenon DEF AdvancedTask, Task, NoTime

\* StartHITL turns a Task into a Task.
LEMMA StartedTaskType ==
    ASSUME NEW k \in Task, NEW a \in Admins, NEW r \in Requests, NEW now \in 0..MaxClock
    PROVE  StartedTask(k, a, r, now) \in Task
<1>1. "hitl_approval" \in Phases
  BY GatePhasesArePhases, Zenon
<1> QED
  BY <1>1, Zenon DEF StartedTask, Task, phaseStatuses, taskStatuses

\* RecordHITL turns a Task into a Task while the decision log is under its
\* bound.
LEMMA DecidedTaskType ==
    ASSUME NEW k \in Task, NEW a \in Admins \cup {TimeoutActor}, NEW d \in Decisions
    PROVE  DecidedTask(k, a, d) \in Task
<1> DEFINE D == [admin : Admins \cup {TimeoutActor}, decision : Decisions,
                 request : Requests \cup {NoRequest}]
           e == [admin |-> a, decision |-> d, request |-> k.request]
<1>1. k.decisions \in Seq(D) /\ e \in D
  BY Zenon DEF Task
<1>2. Append(k.decisions, e) \in Seq(D)
  <2> HIDE DEF D, e
  <2> QED
    BY <1>1
<1>3. EscalationAfter(k, d) \in [request : Requests \cup {NoRequest},
                                 status : {"none", "pending", "delivered", "failed"}]
  BY Zenon DEF EscalationAfter, Task
<1>4. DecidedStatus(d) \in taskStatuses
  BY Zenon DEF DecidedStatus, taskStatuses
<1>5. {"hitl_approval", "repair_execution"} \subseteq Phases
  BY GatePhasesArePhases, Zenon
<1> DEFINE f == [k.phases EXCEPT
                   !["hitl_approval"] = IF d = "timeout_escalated" THEN "failed" ELSE "completed",
                   !["repair_execution"] = CASE d = "approved" -> "in_progress"
                                             [] d = "rejected" -> "failed"
                                             [] OTHER -> @]
<1>6. f \in [Phases -> phaseStatuses]
  BY <1>5, Zenon DEF Task, phaseStatuses
<1>7. DecidedTask(k, a, d) =
        [k EXCEPT !.phases = f, !.status = DecidedStatus(d),
                  !.escalation = EscalationAfter(k, d), !.decisions = Append(k.decisions, e)]
  BY Zenon DEF DecidedTask, Task
<1> HIDE DEF f, e, D
<1> QED
  BY <1>2, <1>3, <1>4, <1>6, <1>7, ZenonT(40) DEF Task, D

\* The empty ledger is well typed.
LEMMA TypeInit == Init => TypeOK
<1>1. (CHOOSE i \in Incidents : TRUE) \in Incidents /\ (CHOOSE r \in Rooms : TRUE) \in Rooms
  BY LedgerAssumption, Zenon
<1> QED
  BY <1>1, NewTaskType, LedgerAssumption DEF Init, TypeOK

\* Every ledger operation keeps the ledger well typed.
LEMMA TypeStep == TypeOK /\ [Next]_ledgerVars => TypeOK'
<1> SUFFICES ASSUME TypeOK, [Next]_ledgerVars PROVE TypeOK'
  BY Zenon
<1> USE DEF TypeOK
<1>1. ASSUME NEW t \in TaskIDs, NEW i \in Incidents, NEW r \in Rooms, Initialize(t, i, r)
      PROVE  TypeOK'
  BY <1>1, NewTaskType, Zenon DEF Initialize
<1>2. ASSUME NEW t \in TaskIDs, NEW x \in AdvanceArgs, Advance(t, x[1], x[2])
      PROVE  TypeOK'
  <2>1. x[1] \in Phases /\ x[2] \in phaseStatuses
    BY LedgerAssumption, Zenon
  <2> QED
    BY <1>2, <2>1, AdvancedTaskType, Zenon DEF Advance
<1>3. ASSUME NEW t \in TaskIDs, NEW a \in Admins, NEW r \in Requests, StartHITL(t, a, r)
      PROVE  TypeOK'
  BY <1>3, StartedTaskType, Zenon DEF StartHITL
<1>4. ASSUME NEW t \in TaskIDs, NEW a \in Admins \cup {TimeoutActor}, NEW d \in Decisions,
             NEW r, RecordHITL(t, a, d, r)
      PROVE  TypeOK'
  BY <1>4, DecidedTaskType, Zenon DEF RecordHITL
<1>5. ASSUME NEW t \in TaskIDs, NEW ok \in BOOLEAN, CompleteEscalation(t, ok)
      PROVE  TypeOK'
  <2> DEFINE st == IF ok THEN "delivered" ELSE "failed"
             e == [task[t].escalation EXCEPT !.status = st]
             k == [task[t] EXCEPT !.escalation = e]
  <2>1. k \in Task
    <3>1. task[t] \in Task
      BY Zenon
    <3>2. e \in [request : Requests \cup {NoRequest},
                 status : {"none", "pending", "delivered", "failed"}]
      BY <3>1, Zenon DEF Task
    <3> HIDE DEF e
    <3> QED
      BY <3>1, <3>2, Zenon DEF Task
  <2>2. task' = [task EXCEPT ![t] = k]
    BY <1>5, Zenon DEF CompleteEscalation
  <2> HIDE DEF k
  <2> QED
    BY <1>5, <2>1, <2>2, Zenon DEF CompleteEscalation
<1>6. ASSUME NEW t \in TaskIDs, NEW id \in AuditIDs, AddAudit(t, id)
      PROVE  TypeOK'
  <2> DEFINE k == [task[t] EXCEPT !.audits = @ \cup {id}]
  <2>1. k \in Task
    BY ZenonT(40) DEF Task
  <2>2. task' = [task EXCEPT ![t] = k]
    BY <1>6, Zenon DEF AddAudit
  <2> HIDE DEF k
  <2> QED
    BY <1>6, <2>1, <2>2, Zenon DEF AddAudit
<1>7. CASE Tick
  BY <1>7, LedgerAssumption DEF Tick
<1>8. CASE UNCHANGED ledgerVars
  BY <1>8, Zenon DEF ledgerVars
<1> QED
  BY <1>1, <1>2, <1>3, <1>4, <1>5, <1>6, <1>7, <1>8, Zenon DEF Next, Decisions

\* validateLedger never rejects what an operation writes: every reachable
\* ledger is well formed.
THEOREM TypeCorrect == Spec => []TypeOK
BY TypeInit, TypeStep, PTL DEF Spec

-----------------------------------------------------------------------------
(* The safety invariant: each conjunct is inductive, given the types *)

LedgerInv ==
    /\ TypeOK
    /\ StatusMatchesPhases
    /\ OutstandingCanExpire
    /\ EscalationHasDecision
    /\ UniqueMapping

\* A fresh task satisfies the invariant.
LEMMA NewTaskSafe ==
    ASSUME NEW i \in Incidents, NEW r \in Rooms, NEW now
    PROVE  /\ StatusAgrees(NewTask(i, r))
           /\ CanExpire(NewTask(i, r), now)
           /\ EscalationAgrees(NewTask(i, r))
<1>1. {"review", "hitl_approval", "repair_execution"} \subseteq Phases
  BY GatePhasesArePhases, Zenon
<1>2. phaseOrder[1] # "hitl_approval"
  <2>1. CASE Len(Intake) = 0
    <3>1. phaseOrder[0 + 1] = GatePhases[1]
      BY <2>1, PhaseOrderShape
    <3> QED
      BY <3>1 DEF GatePhases
  <2>2. CASE Len(Intake) # 0
    <3>1. 1 \in 1..Len(Intake) /\ phaseOrder[1] = Intake[1]
      BY <2>2, PhaseOrderShape
    <3>2. Intake[1] # GatePhases[2]
      BY <3>1, LedgerAssumption
    <3> QED
      BY <3>1, <3>2, Zenon DEF GatePhases
  <2> QED
    BY <2>1, <2>2, Zenon
<1>3. StatusAgrees(NewTask(i, r))
  BY Zenon DEF StatusAgrees, NewTask
<1>4. CanExpire(NewTask(i, r), now)
  BY <1>1, <1>2, Zenon DEF CanExpire, NewTask
<1>5. EscalationAgrees(NewTask(i, r))
  BY DEF EscalationAgrees, NewTask
<1> QED
  BY <1>3, <1>4, <1>5, Zenon

\* Advance never touches a running approval's start or request, and derives
\* the status from the phases it leaves.
LEMMA AdvancedTaskSafe ==
    ASSUME NEW k \in Task, NEW p \in Phases \ {"hitl_approval"}, NEW s \in phaseStatuses,
           NEW now, CanExpire(k, now), EscalationAgrees(k)
    PROVE  /\ StatusAgrees(AdvancedTask(k, p, s))
           /\ CanExpire(AdvancedTask(k, p, s), now)
           /\ EscalationAgrees(AdvancedTask(k, p, s))
<1> DEFINE f == AdvancedPhases(k.phases, p, s)
           k2 == AdvancedTask(k, p, s)
<1>1. k.phases \in [Phases -> phaseStatuses] /\ f \in [Phases -> phaseStatuses]
  BY AdvancedPhasesType, Zenon DEF Task
<1>2. /\ k2.phases = f /\ k2.status = AdvancedStatus(k, p, s)
      /\ k2.decisions = k.decisions /\ k2.escalation = k.escalation
      /\ k2.request = k.request
      /\ k2.started = IF s \in {"completed", "skipped"} /\ nextPhase(p) = "hitl_approval"
                      THEN NoTime ELSE k.started
  BY Zenon DEF AdvancedTask, Task
<1>3. StatusAgrees(k2)
  <2>1. CASE s = "failed"
    <3>1. f[p] = "failed" /\ k2.status = "failed"
      BY <2>1, <1>1, <1>2, Zenon DEF AdvancedPhases, AdvancedStatus
    <3> QED
      BY <3>1, <1>2, Zenon DEF StatusAgrees
  <2>2. CASE s # "failed"
    <3>1. k2.status = deriveTaskStatus(f)
      BY <2>2, <1>2, Zenon DEF AdvancedStatus
    <3> HIDE DEF f, k2
    <3> QED
      BY <3>1, <1>2, Zenon DEF StatusAgrees, deriveTaskStatus
  <2> QED
    BY <2>1, <2>2, Zenon
<1>4. CanExpire(k2, now)
  <2>1. CASE s \in {"completed", "skipped"} /\ nextPhase(p) = "hitl_approval"
    <3>1. f["hitl_approval"] = "pending"
      BY <2>1, <1>1, GatePhasesArePhases, Zenon DEF AdvancedPhases
    <3> QED
      BY <3>1, <1>2, Zenon DEF CanExpire
  <2>2. CASE ~(s \in {"completed", "skipped"} /\ nextPhase(p) = "hitl_approval")
    <3>1. f["hitl_approval"] = k.phases["hitl_approval"] /\ k2.started = k.started
      BY <2>2, <1>1, <1>2, GatePhasesArePhases, Zenon DEF AdvancedPhases
    <3> QED
      BY <3>1, <1>2, Zenon DEF CanExpire
  <2> QED
    BY <2>1, <2>2, Zenon
<1>5. EscalationAgrees(k2)
  BY <1>2, Zenon DEF EscalationAgrees
<1> QED
  BY <1>3, <1>4, <1>5, Zenon

\* StartHITL keeps the per-task invariant: it stamps the start it will time
\* out from.
LEMMA StartedTaskSafe ==
    ASSUME NEW k \in Task, NEW a \in Admins, NEW r \in Requests, NEW now \in Nat,
           CanExpire(k, now), EscalationAgrees(k)
    PROVE  /\ StatusAgrees(StartedTask(k, a, r, now))
           /\ CanExpire(StartedTask(k, a, r, now), now)
           /\ EscalationAgrees(StartedTask(k, a, r, now))
<1> DEFINE k2 == StartedTask(k, a, r, now)
<1>1. /\ k2.phases["hitl_approval"] = "in_progress" /\ k2.status = "awaiting_review"
      /\ k2.decisions = k.decisions /\ k2.escalation = k.escalation
      /\ IF k.phases["hitl_approval"] = "in_progress"
         THEN k2.request = k.request /\ k2.started = k.started
         ELSE k2.request = r /\ k2.started = now
  BY GatePhasesArePhases, Zenon DEF StartedTask, Task
<1> HIDE DEF k2
<1>2. StatusAgrees(k2)
  BY <1>1, Zenon DEF StatusAgrees
<1>3. CanExpire(k2, now)
  BY <1>1, LedgerAssumption DEF CanExpire
<1>4. EscalationAgrees(k2)
  BY <1>1, Zenon DEF EscalationAgrees
<1> QED
  BY <1>2, <1>3, <1>4, Zenon DEF k2

\* Recording a decision appends it, closes the approval and opens an
\* escalation exactly for a timeout.
LEMMA DecidedTaskSafe ==
    ASSUME NEW k \in Task, NEW a, NEW d \in Decisions, NEW now, EscalationAgrees(k)
    PROVE  /\ StatusAgrees(DecidedTask(k, a, d))
           /\ CanExpire(DecidedTask(k, a, d), now)
           /\ EscalationAgrees(DecidedTask(k, a, d))
<1> DEFINE k2 == DecidedTask(k, a, d)
           e == [admin |-> a, decision |-> d, request |-> k.request]
           L == Len(k.decisions)
<1>1. /\ k2.phases["hitl_approval"] = IF d = "timeout_escalated" THEN "failed" ELSE "completed"
      /\ d = "approved" => k2.phases["repair_execution"] = "in_progress"
      /\ d = "rejected" => k2.phases["repair_execution"] = "failed"
      /\ k2.status = DecidedStatus(d)
      /\ k2.escalation = EscalationAfter(k, d)
      /\ k2.decisions = Append(k.decisions, e)
  BY GatePhasesArePhases, Zenon DEF DecidedTask, Task
<1>2. L \in Nat
  BY DEF Task
<1>3. /\ Len(k2.decisions) = L + 1
      /\ k2.decisions[L + 1] = e
      /\ \A n \in 1..L : k2.decisions[n] = k.decisions[n]
  BY <1>1 DEF Task
<1>4. e.decision = d /\ e.request = k.request
  BY Zenon
<1> HIDE DEF k2, e
<1>5. StatusAgrees(k2)
  <2>1. k2.decisions # <<>> /\ Last(k2.decisions).decision = d
    BY <1>2, <1>3, <1>4 DEF Last
  <2> QED
    BY <1>1, <2>1, Zenon DEF StatusAgrees, DecidedStatus, Decisions
<1>6. CanExpire(k2, now)
  BY <1>1, Zenon DEF CanExpire
<1>7. EscalationAgrees(k2)
  <2>1. CASE d = "timeout_escalated"
    <3>1. k2.escalation.status # "none" /\ k2.escalation.request = k.request
      BY <1>1, <2>1 DEF EscalationAfter
    <3>2. LastTimeout(k2.decisions, L + 1)
      BY <1>2, <1>3, <1>4, <2>1 DEF LastTimeout
    <3> QED
      BY <3>1, <3>2, <1>2, <1>3, <1>4, SMTT(30) DEF EscalationAgrees
  <2>2. CASE d # "timeout_escalated"
    <3>1. k2.escalation = k.escalation
      BY <1>1, <2>2, Zenon DEF EscalationAfter
    <3>2. ~LastTimeout(k2.decisions, L + 1)
      BY <1>3, <1>4, <2>2, Zenon DEF LastTimeout
    <3>3. ASSUME NEW n \in 1..L
          PROVE  LastTimeout(k2.decisions, n) <=> LastTimeout(k.decisions, n)
      <4>1. (n + 1)..(L + 1) = ((n + 1)..L) \cup {L + 1}
        BY <1>2
      <4>2. (n + 1)..L \subseteq 1..L
        BY <1>2
      <4> QED
        BY <4>1, <4>2, <1>2, <1>3, <1>4, <2>2, Zenon DEF LastTimeout
    <3>4. 1..(L + 1) = (1..L) \cup {L + 1}
      BY <1>2
    <3> QED
      BY <3>1, <3>2, <3>3, <3>4, <1>3, Zenon DEF EscalationAgrees
  <2> QED
    BY <2>1, <2>2, Zenon
<1> QED
  BY <1>5, <1>6, <1>7, Zenon DEF k2

\* Writing a delivery outcome or an audit reference disturbs no conjunct.
LEMMA BookkeepingSafe ==
    ASSUME NEW k \in Task, NEW k2, NEW now,
           StatusAgrees(k), CanExpire(k, now), EscalationAgrees(k),
           k2.phases = k.phases, k2.status = k.status, k2.decisions = k.decisions,
           k2.started = k.started, k2.request = k.request,
           k2.escalation.request = k.escalation.request,
           k2.escalation.status # "none" <=> k.escalation.status # "none"
    PROVE  StatusAgrees(k2) /\ CanExpire(k2, now) /\ EscalationAgrees(k2)
BY DEF StatusAgrees, CanExpire, EscalationAgrees

\* The empty ledger satisfies the inductive invariant.
LEMMA LedgerInvInit == Init => LedgerInv
BY TypeInit, Zenon DEF Init, LedgerInv, StatusMatchesPhases, OutstandingCanExpire,
   EscalationHasDecision, UniqueMapping

\* A step that rewrites one tracked task, keeping its mapping, preserves the
\* invariant if the new task satisfies it.
LEMMA OneTaskStep ==
    ASSUME LedgerInv, TypeOK', NEW t \in tracked, NEW k2 \in Task,
           task' = [task EXCEPT ![t] = k2], UNCHANGED <<tracked, clock>>,
           k2.incident = task[t].incident, k2.room = task[t].room,
           StatusAgrees(k2), CanExpire(k2, clock), EscalationAgrees(k2)
    PROVE  LedgerInv'
<1>1. t \in TaskIDs /\ task \in [TaskIDs -> Task] /\ tracked \subseteq TaskIDs
  BY Zenon DEF LedgerInv, TypeOK
<1>2. \A u \in tracked : task'[u] = IF u = t THEN k2 ELSE task[u]
  BY <1>1, Zenon
<1>3. StatusMatchesPhases' /\ OutstandingCanExpire' /\ EscalationHasDecision'
  BY <1>2, Zenon DEF LedgerInv, StatusMatchesPhases, OutstandingCanExpire, EscalationHasDecision
<1>4. UniqueMapping'
  <2>1. \A u \in tracked : task'[u].incident = task[u].incident /\ task'[u].room = task[u].room
    BY <1>2, Zenon
  <2> QED
    BY <2>1 DEF LedgerInv, UniqueMapping
<1> QED
  BY <1>3, <1>4, Zenon DEF LedgerInv

\* Every ledger operation preserves the inductive invariant.
LEMMA LedgerInvStep == LedgerInv /\ [Next]_ledgerVars => LedgerInv'
<1> SUFFICES ASSUME LedgerInv, [Next]_ledgerVars PROVE LedgerInv'
  OBVIOUS
<1>0. TypeOK /\ TypeOK'
  BY TypeStep, Zenon DEF LedgerInv
<1>t. ASSUME NEW t \in tracked
      PROVE  /\ t \in TaskIDs /\ task[t] \in Task
             /\ StatusAgrees(task[t]) /\ CanExpire(task[t], clock) /\ EscalationAgrees(task[t])
  BY <1>0, <1>t, Zenon DEF LedgerInv, TypeOK, StatusMatchesPhases, OutstandingCanExpire,
     EscalationHasDecision
<1>1. ASSUME NEW t \in TaskIDs, NEW i \in Incidents, NEW r \in Rooms, Initialize(t, i, r)
      PROVE  LedgerInv'
  <2>1. /\ t \notin tracked /\ tracked' = tracked \cup {t} /\ clock' = clock
        /\ task'[t] = NewTask(i, r)
        /\ \A u \in tracked : task'[u] = task[u]
    BY <1>0, <1>1, Zenon DEF Initialize, TypeOK
  <2>2. StatusMatchesPhases' /\ OutstandingCanExpire' /\ EscalationHasDecision'
    BY <2>1, NewTaskSafe, <1>t, Zenon
       DEF StatusMatchesPhases, OutstandingCanExpire, EscalationHasDecision
  <2>3. UniqueMapping'
    <3>1. NewTask(i, r).incident = i /\ NewTask(i, r).room = r
      BY Zenon DEF NewTask
    <3> QED
      BY <1>1, <2>1, <3>1 DEF LedgerInv, UniqueMapping, Initialize, MappingFree
  <2> QED
    BY <1>0, <2>2, <2>3, Zenon DEF LedgerInv
<1>2. ASSUME NEW t \in TaskIDs, NEW x \in AdvanceArgs, Advance(t, x[1], x[2])
      PROVE  LedgerInv'
  <2> DEFINE k2 == AdvancedTask(task[t], x[1], x[2])
  <2>1. t \in tracked /\ x[1] \in Phases \ {"hitl_approval"} /\ x[2] \in phaseStatuses
    BY <1>2, LedgerAssumption, Zenon DEF Advance
  <2>2. k2 \in Task /\ k2.incident = task[t].incident /\ k2.room = task[t].room
    <3>1. k2 \in Task
      BY <2>1, <1>t, AdvancedTaskType, Zenon
    <3>2. task[t] \in Task
      BY <2>1, <1>t, Zenon
    <3> QED
      BY <3>1, <3>2, Zenon DEF AdvancedTask, Task
  <2>3. StatusAgrees(k2) /\ CanExpire(k2, clock) /\ EscalationAgrees(k2)
    BY <2>1, <1>t, AdvancedTaskSafe, Zenon
  <2>4. task' = [task EXCEPT ![t] = k2] /\ UNCHANGED <<tracked, clock>>
    BY <1>2, Zenon DEF Advance
  <2> HIDE DEF k2
  <2> QED
    BY <1>0, <2>1, <2>2, <2>3, <2>4, OneTaskStep, Zenon
<1>3. ASSUME NEW t \in TaskIDs, NEW a \in Admins, NEW r \in Requests, StartHITL(t, a, r)
      PROVE  LedgerInv'
  <2> DEFINE k2 == StartedTask(task[t], a, r, clock)
  <2>1. t \in tracked /\ clock \in 0..MaxClock /\ clock \in Nat
    BY <1>0, <1>3, LedgerAssumption DEF StartHITL, TypeOK
  <2>2. k2 \in Task /\ k2.incident = task[t].incident /\ k2.room = task[t].room
    <3>1. k2 \in Task
      BY <2>1, <1>t, StartedTaskType, Zenon
    <3>2. task[t] \in Task
      BY <2>1, <1>t, Zenon
    <3> QED
      BY <3>1, <3>2, Zenon DEF StartedTask, Task
  <2>3. StatusAgrees(k2) /\ CanExpire(k2, clock) /\ EscalationAgrees(k2)
    BY <2>1, <1>t, StartedTaskSafe, Zenon
  <2>4. task' = [task EXCEPT ![t] = k2] /\ UNCHANGED <<tracked, clock>>
    BY <1>3, Zenon DEF StartHITL
  <2> HIDE DEF k2
  <2> QED
    BY <1>0, <2>1, <2>2, <2>3, <2>4, OneTaskStep, Zenon
<1>4. ASSUME NEW t \in TaskIDs, NEW a \in Admins \cup {TimeoutActor}, NEW d \in Decisions,
             NEW r, RecordHITL(t, a, d, r)
      PROVE  LedgerInv'
  <2> DEFINE k2 == DecidedTask(task[t], a, d)
  <2>1. t \in tracked
    BY <1>4, Zenon DEF RecordHITL
  <2>2. k2 \in Task /\ k2.incident = task[t].incident /\ k2.room = task[t].room
    <3>1. k2 \in Task
      BY <2>1, <1>t, DecidedTaskType, Zenon
    <3>2. task[t] \in Task
      BY <2>1, <1>t, Zenon
    <3> QED
      BY <3>1, <3>2, Zenon DEF DecidedTask, Task
  <2>3. StatusAgrees(k2) /\ CanExpire(k2, clock) /\ EscalationAgrees(k2)
    BY <2>1, <1>t, DecidedTaskSafe, Zenon
  <2>4. task' = [task EXCEPT ![t] = k2] /\ UNCHANGED <<tracked, clock>>
    BY <1>4, Zenon DEF RecordHITL
  <2> HIDE DEF k2
  <2> QED
    BY <1>0, <2>1, <2>2, <2>3, <2>4, OneTaskStep, Zenon
<1>5. ASSUME NEW t \in TaskIDs, NEW ok \in BOOLEAN, CompleteEscalation(t, ok)
      PROVE  LedgerInv'
  <2> DEFINE k2 == task'[t]
  <2>1. t \in tracked /\ task[t].escalation.status # "none"
    BY <1>5, Zenon DEF CompleteEscalation
  <2>2. k2 \in Task /\ task' = [task EXCEPT ![t] = k2] /\ UNCHANGED <<tracked, clock>>
    BY <1>0, <1>5, Zenon DEF CompleteEscalation, TypeOK
  <2>3. k2 = [task[t] EXCEPT !.escalation =
                [task[t].escalation EXCEPT !.status = IF ok THEN "delivered" ELSE "failed"]]
    BY <1>0, <1>5, Zenon DEF CompleteEscalation, TypeOK
  <2>4. /\ k2.phases = task[t].phases /\ k2.status = task[t].status
        /\ k2.decisions = task[t].decisions /\ k2.started = task[t].started
        /\ k2.request = task[t].request /\ k2.incident = task[t].incident
        /\ k2.room = task[t].room
        /\ k2.escalation.request = task[t].escalation.request
        /\ k2.escalation.status # "none"
    BY <2>1, <2>3, <1>t DEF Task
  <2> HIDE DEF k2
  <2>5. StatusAgrees(k2) /\ CanExpire(k2, clock) /\ EscalationAgrees(k2)
    BY <2>1, <2>4, <1>t, BookkeepingSafe, Zenon
  <2> QED
    BY <1>0, <2>1, <2>2, <2>4, <2>5, OneTaskStep, Zenon
<1>6. ASSUME NEW t \in TaskIDs, NEW id \in AuditIDs, AddAudit(t, id)
      PROVE  LedgerInv'
  <2> DEFINE k2 == task'[t]
  <2>1. t \in tracked
    BY <1>6, Zenon DEF AddAudit
  <2>2. k2 \in Task /\ task' = [task EXCEPT ![t] = k2] /\ UNCHANGED <<tracked, clock>>
    BY <1>0, <1>6, Zenon DEF AddAudit, TypeOK
  <2>3. k2 = [task[t] EXCEPT !.audits = @ \cup {id}]
    BY <1>0, <1>6, Zenon DEF AddAudit, TypeOK
  <2>4. /\ k2.phases = task[t].phases /\ k2.status = task[t].status
        /\ k2.decisions = task[t].decisions /\ k2.started = task[t].started
        /\ k2.request = task[t].request /\ k2.incident = task[t].incident
        /\ k2.room = task[t].room /\ k2.escalation = task[t].escalation
    BY <2>1, <2>3, <1>t, Zenon DEF Task
  <2> HIDE DEF k2
  <2>5. StatusAgrees(k2) /\ CanExpire(k2, clock) /\ EscalationAgrees(k2)
    BY <2>1, <2>4, <1>t, BookkeepingSafe, Zenon
  <2> QED
    BY <1>0, <2>1, <2>2, <2>4, <2>5, OneTaskStep, Zenon
<1>7. CASE Tick
  <2>1. clock \in Nat /\ clock' = clock + 1 /\ UNCHANGED <<tracked, task>>
    BY <1>0, <1>7, LedgerAssumption DEF Tick, TypeOK
  <2>2. OutstandingCanExpire'
    BY <2>1 DEF LedgerInv, OutstandingCanExpire, CanExpire
  <2> QED
    BY <1>0, <2>1, <2>2 DEF LedgerInv, StatusMatchesPhases, EscalationHasDecision, UniqueMapping
<1>8. CASE UNCHANGED ledgerVars
  BY <1>0, <1>8 DEF ledgerVars, LedgerInv, StatusMatchesPhases, OutstandingCanExpire,
     EscalationHasDecision, UniqueMapping
<1> QED
  BY <1>1, <1>2, <1>3, <1>4, <1>5, <1>6, <1>7, <1>8, Zenon DEF Next, Decisions

\* The whole safety invariant holds in every reachable ledger.
THEOREM LedgerSafe == Spec => []LedgerInv
BY LedgerInvInit, LedgerInvStep, PTL DEF Spec

\* The task status agrees with the phases and the latest decision, whatever
\* sequence of Advance, StartHITL and RecordHITL produced it.
THEOREM StatusCorrect == Spec => []StatusMatchesPhases
<1>1. LedgerInv => StatusMatchesPhases
  BY Zenon DEF LedgerInv
<1> QED
  BY <1>1, LedgerSafe, PTL

\* Every outstanding approval can be expired by DueHITL and decided.
THEOREM OutstandingCorrect == Spec => []OutstandingCanExpire
<1>1. LedgerInv => OutstandingCanExpire
  BY Zenon DEF LedgerInv
<1> QED
  BY <1>1, LedgerSafe, PTL

\* The escalation names the request of the latest timeout on record.
THEOREM EscalationCorrect == Spec => []EscalationHasDecision
<1>1. LedgerInv => EscalationHasDecision
  BY Zenon DEF LedgerInv
<1> QED
  BY <1>1, LedgerSafe, PTL

\* Incidents and rooms are never shared by two tasks, so save never fails on
\* a duplicate mapping.
THEOREM MappingCorrect == Spec => []UniqueMapping
<1>1. LedgerInv => UniqueMapping
  BY Zenon DEF LedgerInv
<1> QED
  BY <1>1, LedgerSafe, PTL

-----------------------------------------------------------------------------
(* What a step may never do *)

ApprovalStep(k, k2) == (StartsRepair(k, k2) => ApprovedBy(k, k2)) /\ KeepsApproval(k, k2)

\* Advance neither starts a repair nor touches an outstanding approval.
LEMMA AdvancedTaskStep ==
    ASSUME NEW k \in Task, NEW p \in Phases \ {"hitl_approval"}, NEW s \in phaseStatuses,
           ~(p = "repair_execution" /\ k.phases[p] = "pending" /\ s = "in_progress")
    PROVE  ApprovalStep(k, AdvancedTask(k, p, s))
<1> DEFINE f == AdvancedPhases(k.phases, p, s)
           k2 == AdvancedTask(k, p, s)
<1>1. k.phases \in [Phases -> phaseStatuses]
  BY Zenon DEF Task
<1>2. /\ k2.phases = f /\ k2.request = k.request /\ k2.assigned = k.assigned
      /\ k2.started = IF s \in {"completed", "skipped"} /\ nextPhase(p) = "hitl_approval"
                      THEN NoTime ELSE k.started
  BY Zenon DEF AdvancedTask, Task
<1>3. nextPhase(p) # "repair_execution"
  BY NextPhaseFacts, Zenon
<1>4. ~StartsRepair(k, k2)
  <2>1. f["repair_execution"] = IF p = "repair_execution" THEN s ELSE k.phases["repair_execution"]
    BY <1>1, <1>3, GatePhasesArePhases, Zenon DEF AdvancedPhases
  <2> QED
    BY <1>2, <2>1, Zenon DEF StartsRepair
<1>5. KeepsApproval(k, k2)
  <2>1. s \in {"completed", "skipped"} /\ nextPhase(p) = "hitl_approval"
          => f["hitl_approval"] = "pending"
    BY <1>1, GatePhasesArePhases, Zenon DEF AdvancedPhases
  <2> QED
    BY <1>2, <2>1, Zenon DEF KeepsApproval
<1> QED
  BY <1>4, <1>5, Zenon DEF ApprovalStep

\* StartHITL starts no repair and keeps an outstanding approval.
LEMMA StartedTaskStep ==
    ASSUME NEW k \in Task, NEW a, NEW r, NEW now,
           k.phases["hitl_approval"] = "in_progress" => k.assigned \in {DefaultAdmin, a}
    PROVE  ApprovalStep(k, StartedTask(k, a, r, now))
<1> DEFINE k2 == StartedTask(k, a, r, now)
<1>1. /\ k2.phases["repair_execution"] = k.phases["repair_execution"]
      /\ k2.assigned = a
      /\ k.phases["hitl_approval"] = "in_progress" => k2.request = k.request /\ k2.started = k.started
  BY GatePhasesArePhases, Zenon DEF StartedTask, Task
<1> HIDE DEF k2
<1> QED
  BY <1>1, Zenon DEF ApprovalStep, StartsRepair, KeepsApproval, k2

\* RecordHITL starts a repair only by an approval of the assigned admin, and
\* ends the approval it decides.
LEMMA DecidedTaskStep ==
    ASSUME NEW k \in Task, NEW a, NEW d \in Decisions, NEW r,
           k.phases["hitl_approval"] = "in_progress", MayDecide(k, a, d, r)
    PROVE  ApprovalStep(k, DecidedTask(k, a, d))
<1> DEFINE k2 == DecidedTask(k, a, d)
<1>1. /\ k2.phases["hitl_approval"] # "in_progress"
      /\ d = "rejected" => k2.phases["repair_execution"] = "failed"
      /\ d = "timeout_escalated" => k2.phases["repair_execution"] = k.phases["repair_execution"]
      /\ k2.decisions = Append(k.decisions, [admin |-> a, decision |-> d, request |-> k.request])
  BY GatePhasesArePhases, Zenon DEF DecidedTask, Task, Decisions
<1>2. d = "approved" => a = k.assigned
  BY Zenon DEF MayDecide
<1> HIDE DEF k2
<1> QED
  BY <1>1, <1>2, Zenon DEF ApprovalStep, StartsRepair, ApprovedBy, KeepsApproval, Decisions, k2

\* An operation that leaves phases and assignment alone does neither.
LEMMA SamePhasesStep ==
    ASSUME NEW k, NEW k2, k2.phases = k.phases, k2.request = k.request,
           k2.started = k.started, k2.assigned = k.assigned
    PROVE  ApprovalStep(k, k2)
BY Zenon DEF ApprovalStep, StartsRepair, KeepsApproval

\* Every ledger operation satisfies both action properties.
LEMMA ApprovalSteps ==
    TypeOK /\ [Next]_ledgerVars => \A u \in tracked : ApprovalStep(task[u], task'[u])
<1> SUFFICES ASSUME TypeOK, [Next]_ledgerVars, NEW u \in tracked
             PROVE  ApprovalStep(task[u], task'[u])
  BY Zenon
<1>0. u \in TaskIDs /\ task[u] \in Task /\ task \in [TaskIDs -> Task]
  BY Zenon DEF TypeOK
<1>u. CASE task'[u] = task[u]
  BY <1>u, SamePhasesStep, Zenon
<1>1. ASSUME NEW t \in TaskIDs, NEW i \in Incidents, NEW r \in Rooms, Initialize(t, i, r)
      PROVE  task'[u] = task[u]
  BY <1>0, <1>1, Zenon DEF Initialize
<1>2. ASSUME NEW t \in TaskIDs, NEW x \in AdvanceArgs, Advance(t, x[1], x[2])
      PROVE  ApprovalStep(task[u], task'[u])
  <2>1. x[1] \in Phases \ {"hitl_approval"} /\ x[2] \in phaseStatuses
    BY <1>2, LedgerAssumption, Zenon DEF Advance
  <2>2. t = u => task'[u] = AdvancedTask(task[u], x[1], x[2])
    BY <1>0, <1>2, Zenon DEF Advance
  <2>3. t # u => task'[u] = task[u]
    BY <1>0, <1>2, Zenon DEF Advance
  <2>4. t = u => ~(x[1] = "repair_execution" /\ task[u].phases[x[1]] = "pending"
                   /\ x[2] = "in_progress")
    BY <1>2, Zenon DEF Advance
  <2> QED
    BY <1>0, <1>u, <2>1, <2>2, <2>3, <2>4, AdvancedTaskStep, Zenon
<1>3. ASSUME NEW t \in TaskIDs, NEW a \in Admins, NEW r \in Requests, StartHITL(t, a, r)
      PROVE  ApprovalStep(task[u], task'[u])
  <2>1. t = u => task'[u] = StartedTask(task[u], a, r, clock)
    BY <1>0, <1>3, Zenon DEF StartHITL
  <2>2. t # u => task'[u] = task[u]
    BY <1>0, <1>3, Zenon DEF StartHITL
  <2>3. t = u => (task[u].phases["hitl_approval"] = "in_progress"
                    => task[u].assigned \in {DefaultAdmin, a})
    BY <1>3, Zenon DEF StartHITL
  <2> QED
    BY <1>0, <1>u, <2>1, <2>2, <2>3, StartedTaskStep, Zenon
<1>4. ASSUME NEW t \in TaskIDs, NEW a \in Admins \cup {TimeoutActor}, NEW d \in Decisions,
             NEW r, RecordHITL(t, a, d, r)
      PROVE  ApprovalStep(task[u], task'[u])
  <2>1. t = u => task'[u] = DecidedTask(task[u], a, d)
    BY <1>0, <1>4, Zenon DEF RecordHITL
  <2>2. t # u => task'[u] = task[u]
    BY <1>0, <1>4, Zenon DEF RecordHITL
  <2>3. t = u => task[u].phases["hitl_approval"] = "in_progress" /\ MayDecide(task[u], a, d, r)
    BY <1>4, Zenon DEF RecordHITL
  <2> QED
    BY <1>0, <1>u, <2>1, <2>2, <2>3, DecidedTaskStep, Zenon
<1>5. ASSUME NEW t \in TaskIDs, NEW ok \in BOOLEAN, CompleteEscalation(t, ok)
      PROVE  ApprovalStep(task[u], task'[u])
  <2>1. /\ task'[u].phases = task[u].phases /\ task'[u].request = task[u].request
        /\ task'[u].started = task[u].started /\ task'[u].assigned = task[u].assigned
    BY <1>0, <1>5, Zenon DEF CompleteEscalation, Task
  <2> QED
    BY <2>1, SamePhasesStep, Zenon
<1>6. ASSUME NEW t \in TaskIDs, NEW id \in AuditIDs, AddAudit(t, id)
      PROVE  ApprovalStep(task[u], task'[u])
  <2>1. /\ task'[u].phases = task[u].phases /\ task'[u].request = task[u].request
        /\ task'[u].started = task[u].started /\ task'[u].assigned = task[u].assigned
    BY <1>0, <1>6, Zenon DEF AddAudit, Task
  <2> QED
    BY <2>1, SamePhasesStep, Zenon
<1>7. Tick \/ UNCHANGED ledgerVars => task'[u] = task[u]
  BY Zenon DEF Tick, ledgerVars
<1> QED
  BY <1>u, <1>1, <1>2, <1>3, <1>4, <1>5, <1>6, <1>7, Zenon DEF Next, Decisions

\* Only an approval by the assigned admin for the outstanding request takes a
\* repair that has not started from pending to in_progress.
THEOREM RepairGate == Spec => RepairStartedByApproval
<1>1. TypeOK /\ [Next]_ledgerVars
        => [\A t \in tracked : StartsRepair(task[t], task'[t])
              => ApprovedBy(task[t], task'[t])]_ledgerVars
  BY ApprovalSteps, Zenon DEF ApprovalStep
<1> QED
  BY <1>1, TypeCorrect, PTL DEF Spec, RepairStartedByApproval

\* An outstanding approval is neither re-routed nor replaced.
THEOREM ApprovalStable == Spec => OutstandingApprovalStable
<1>1. TypeOK /\ [Next]_ledgerVars
        => [\A t \in tracked : KeepsApproval(task[t], task'[t])]_ledgerVars
  BY ApprovalSteps, Zenon DEF ApprovalStep
<1> QED
  BY <1>1, TypeCorrect, PTL DEF Spec, OutstandingApprovalStable

-----------------------------------------------------------------------------
(* The commands of TeamCLI *)

\* A notification that names a timeout the ledger has on record.
Recorded(x) ==
    /\ x.task \in tracked
    /\ \E n \in 1..Len(task[x.task].decisions) :
         /\ task[x.task].decisions[n].decision = "timeout_escalated"
         /\ task[x.task].decisions[n].request = x.request

\* The types of the processes' own state.
CLITyped ==
    /\ TypeOK
    /\ proc \in [Procs -> Local]
    /\ \A p \in Procs : proc[p].pc = "complete" => proc[p].item \in Notice
    /\ posted \subseteq Notice

\* What was posted, and what a process has yet to post, is on record; only hitl
\* may name another request, when it is given a wrong one.
NoticesRecorded ==
    /\ \A x \in posted : Recorded(x) \/ x.request \in HitlFlags
    /\ \A p \in Procs : \A x \in proc[p].pend : Recorded(x) \/ x.request \in HitlFlags

\* A notification that names the request its task's escalation is about.
Current(x) == x.task \in tracked /\ x.request = task[x.task].escalation.request

\* The monitor posts and completes what the ledger still says: nobody opens
\* another escalation between its listing and its last write.
MonitorUpToDate ==
    /\ proc[Monitor].pend # {} => proc[Monitor].pc \in {"post", "complete"}
    /\ \A x \in proc[Monitor].pend : Current(x)
    /\ proc[Monitor].pc = "complete" =>
         /\ Current(proc[Monitor].item)
         /\ proc[Monitor].ok => proc[Monitor].item \in posted

\* A process at rest.
LEMMA AtRestFacts ==
    ASSUME NEW p, NEW failed \in BOOLEAN
    PROVE  /\ AtRest("idle") \in Local /\ AtRest("idle").pc = "idle" /\ AtRest("idle").pend = {}
           /\ AtRest("stopped") \in Local /\ AtRest("stopped").pc = "stopped"
           /\ AtRest("stopped").pend = {}
           /\ Ended(p, failed) \in {AtRest("idle"), AtRest("stopped")}
<1>1. AtRest("idle") \in Local /\ AtRest("stopped") \in Local
  BY Zenon DEF AtRest, Local
<1> QED
  BY <1>1, Zenon DEF AtRest, Ended

\* What the commands' steps make of a process.
LEMMA LocalFields ==
    ASSUME NEW l \in Local
    PROVE  /\ l.pend \subseteq Notice /\ l.due \subseteq TaskIDs \X (0..MaxClock)
           /\ l.ok \in BOOLEAN /\ l.failed \in BOOLEAN
           /\ \A D \in SUBSET (TaskIDs \X (0..MaxClock)) :
                /\ [l EXCEPT !.due = D] \in Local
                /\ [l EXCEPT !.pc = "record", !.due = D] \in Local
           /\ [l EXCEPT !.pc = "list"] \in Local
           /\ \A P \in SUBSET Notice : [l EXCEPT !.pc = "post", !.pend = P] \in Local
           /\ \A x \in Notice, ok \in BOOLEAN, P \in SUBSET Notice :
                [l EXCEPT !.pc = "complete", !.item = x, !.ok = ok, !.pend = P] \in Local
           /\ \A f \in BOOLEAN :
                [l EXCEPT !.pc = "post", !.item = <<>>, !.ok = FALSE, !.failed = f] \in Local
BY Zenon DEF Local

\* A step of one process.
LEMMA OneProc ==
    ASSUME CLITyped, NEW p \in Procs, NEW w \in Local, proc' = [proc EXCEPT ![p] = w]
    PROVE  /\ proc' \in [Procs -> Local] /\ proc'[p] = w
           /\ \A q \in Procs \ {p} : proc'[q] = proc[q]
BY Zenon DEF CLITyped

\* After DueHITL.
LEMMA BegunExpire ==
    ASSUME CLITyped, ExpireBegin
    PROVE  /\ proc' \in [Procs -> Local]
           /\ \A q \in Procs \ {Monitor} : proc'[q] = proc[q]
           /\ proc'[Monitor].pc = "record"
           /\ proc'[Monitor].pend = proc[Monitor].pend
<1> DEFINE w == [proc[Monitor] EXCEPT !.pc = "record", !.due = DueHITL]
<1>1. Monitor \in Procs /\ proc[Monitor] \in Local
  BY Zenon DEF Procs, CLITyped
<1>2. w \in Local
  <2>1. DueHITL \subseteq TaskIDs \X (0..MaxClock)
    <3>1. ASSUME NEW t \in tracked, Overdue(t)
          PROVE  <<t, task[t].started>> \in TaskIDs \X (0..MaxClock)
      BY <3>1, Zenon DEF CLITyped, TypeOK, Task, Overdue
    <3> QED
      BY <3>1, Zenon DEF DueHITL
  <2> QED
    BY <1>1, <2>1, LocalFields, Zenon
<1>3. w.pc = "record" /\ w.pend = proc[Monitor].pend
  BY <1>1, Zenon DEF Local
<1>4. proc' = [proc EXCEPT ![Monitor] = w]
  BY <1>1, Zenon DEF CLITyped, ExpireBegin
<1> HIDE DEF w
<1> QED
  BY <1>1, <1>2, <1>3, <1>4, OneProc, Zenon

\* After the last RecordHITL.
LEMMA ExpireDone ==
    ASSUME CLITyped, ExpireRecorded
    PROVE  /\ proc' \in [Procs -> Local]
           /\ \A q \in Procs \ {Monitor} : proc'[q] = proc[q]
           /\ proc'[Monitor].pc = "list"
           /\ proc'[Monitor].pend = proc[Monitor].pend
<1> DEFINE w == [proc[Monitor] EXCEPT !.pc = "list"]
<1>1. Monitor \in Procs /\ proc[Monitor] \in Local
  BY DEF Procs, CLITyped
<1>2. w \in Local
  BY <1>1, LocalFields, Zenon
<1>3. w.pc = "list" /\ w.pend = proc[Monitor].pend
  BY <1>1, Zenon DEF Local
<1>4. proc' = [proc EXCEPT ![Monitor] = w]
  BY <1>1, Zenon DEF CLITyped, ExpireRecorded
<1> HIDE DEF w
<1> QED
  BY <1>1, <1>2, <1>3, <1>4, OneProc, ZenonT(30)

\* After the start of retry-escalation.
LEMMA RetryBegun ==
    ASSUME CLITyped, NEW p \in Procs, RetryBegin(p)
    PROVE  /\ proc' \in [Procs -> Local]
           /\ \A q \in Procs \ {p} : proc'[q] = proc[q]
           /\ proc'[p].pc = "list"
           /\ proc'[p].pend = proc[p].pend
<1> DEFINE w == [proc[p] EXCEPT !.pc = "list"]
<1>1. p \in Procs /\ proc[p] \in Local
  BY Zenon DEF Procs, CLITyped
<1>2. w \in Local
  BY <1>1, LocalFields, Zenon
<1>3. w.pc = "list" /\ w.pend = proc[p].pend
  BY <1>1, Zenon DEF Local
<1>4. proc' = [proc EXCEPT ![p] = w]
  BY <1>1, Zenon DEF CLITyped, RetryBegin
<1> HIDE DEF w
<1> QED
  BY <1>1, <1>2, <1>3, <1>4, OneProc, Zenon

\* After PendingEscalations.
LEMMA PendingListed ==
    ASSUME CLITyped, NEW p \in Procs, ListPending(p)
    PROVE  /\ proc' \in [Procs -> Local]
           /\ \A q \in Procs \ {p} : proc'[q] = proc[q]
           /\ proc'[p].pc = "post"
           /\ proc'[p].pend = PendingEscalations
<1> DEFINE w == [proc[p] EXCEPT !.pc = "post", !.pend = PendingEscalations]
<1>1. p \in Procs /\ proc[p] \in Local
  BY DEF Procs, CLITyped
<1>2. w \in Local
  <2>1. PendingEscalations \subseteq Notice
    <3>1. ASSUME NEW t \in tracked
          PROVE  [task |-> t, request |-> task[t].escalation.request] \in Notice
      BY Zenon DEF CLITyped, TypeOK, Task, Notice
    <3> QED
      BY <3>1, Zenon DEF PendingEscalations
  <2> QED
    BY <1>1, <2>1, LocalFields, Zenon
<1>3. w.pc = "post" /\ w.pend = PendingEscalations
  BY <1>1, Zenon DEF Local
<1>4. proc' = [proc EXCEPT ![p] = w]
  BY <1>1, Zenon DEF CLITyped, ListPending
<1> HIDE DEF w
<1> QED
  BY <1>1, <1>2, <1>3, <1>4, OneProc, Zenon

\* After the RecordHITL of hitl.
LEMMA TimeoutTold ==
    ASSUME CLITyped, NEW p \in Procs, NEW t \in TaskIDs, NEW r \in Requests \cup {NoRequest},
           HITLTimeout(p, t, r)
    PROVE  /\ proc' \in [Procs -> Local]
           /\ \A q \in Procs \ {p} : proc'[q] = proc[q]
           /\ proc'[p].pc = "post"
           /\ proc'[p].pend = {[task |-> t, request |-> r]}
<1> DEFINE w == [proc[p] EXCEPT !.pc = "post", !.pend = {[task |-> t, request |-> r]}]
<1>1. p \in Procs /\ proc[p] \in Local
  BY Zenon DEF Procs, CLITyped
<1>2. w \in Local
  <2>1. {[task |-> t, request |-> r]} \subseteq Notice
    BY DEF Notice
  <2> QED
    BY <1>1, <2>1, LocalFields, Zenon
<1>3. w.pc = "post" /\ w.pend = {[task |-> t, request |-> r]}
  BY <1>1, Zenon DEF Local
<1>4. proc' = [proc EXCEPT ![p] = w]
  BY <1>1, Zenon DEF CLITyped, HITLTimeout
<1> HIDE DEF w
<1> QED
  BY <1>1, <1>2, <1>3, <1>4, OneProc, Zenon

\* After a post.
LEMMA Hooked ==
    ASSUME CLITyped, NEW p \in Procs, NEW x, NEW received, NEW ok \in BOOLEAN,
           PostHook(p, x, received, ok)
    PROVE  /\ proc' \in [Procs -> Local]
           /\ \A q \in Procs \ {p} : proc'[q] = proc[q]
           /\ proc'[p].pc = "complete"
           /\ proc'[p].item = x
           /\ proc'[p].ok = ok
           /\ proc'[p].pend = proc[p].pend \ {x}
<1> DEFINE w == [proc[p] EXCEPT !.pc = "complete", !.item = x, !.ok = ok, !.pend = @ \ {x}]
<1>1. p \in Procs /\ proc[p] \in Local
  BY Zenon DEF Procs, CLITyped
<1>2. w \in Local
  <2>1. x \in Notice /\ proc[p].pend \ {x} \subseteq Notice
    BY <1>1, LocalFields, Zenon DEF PostHook
  <2> QED
    BY <1>1, <2>1, LocalFields, ZenonT(30)
<1>3. w.pc = "complete" /\ w.item = x /\ w.ok = ok /\ w.pend = proc[p].pend \ {x}
  BY <1>1, Zenon DEF Local
<1>4. proc' = [proc EXCEPT ![p] = w]
  BY <1>1, Zenon DEF CLITyped, PostHook
<1> HIDE DEF w
<1> QED
  BY <1>1, <1>2, <1>3, <1>4, OneProc, Zenon

\* After CompleteEscalation.
LEMMA Completed ==
    ASSUME CLITyped, NEW p \in Procs, Complete(p)
    PROVE  /\ proc' \in [Procs -> Local]
           /\ \A q \in Procs \ {p} : proc'[q] = proc[q]
           /\ proc'[p].pc = "post"
           /\ proc'[p].pend = proc[p].pend
<1> DEFINE w == [proc[p] EXCEPT !.pc = "post", !.item = <<>>, !.ok = FALSE,
                                !.failed = @ \/ ~proc[p].ok]
<1>1. p \in Procs /\ proc[p] \in Local
  BY DEF Procs, CLITyped
<1>2. w \in Local
  <2>1. (proc[p].failed \/ ~proc[p].ok) \in BOOLEAN
    BY <1>1, LocalFields, Zenon
  <2> QED
    BY <1>1, <2>1, LocalFields, ZenonT(30)
<1>3. w.pc = "post" /\ w.pend = proc[p].pend
  BY <1>1, Zenon DEF Local
<1>4. proc' = [proc EXCEPT ![p] = w]
  BY <1>1, Zenon DEF CLITyped, Complete
<1> HIDE DEF w
<1> QED
  BY <1>1, <1>2, <1>3, <1>4, OneProc, ZenonT(30)

\* After a command has ended, or was killed.
LEMMA ProcRests ==
    ASSUME CLITyped, NEW p \in Procs, Finish(p) \/ Crash(p) \/ (p = Monitor /\ MonitorStart)
    PROVE  /\ proc' \in [Procs -> Local]
           /\ \A q \in Procs \ {p} : proc'[q] = proc[q]
           /\ proc'[p].pend = {} /\ proc'[p].pc \in {"idle", "stopped"}
<1>1. proc[p].failed \in BOOLEAN
  BY LocalFields, Zenon DEF CLITyped
<1>2. PICK w \in {AtRest("idle"), AtRest("stopped")} : proc' = [proc EXCEPT ![p] = w]
  BY <1>1, AtRestFacts, Zenon DEF Finish, Crash, MonitorStart
<1>3. w \in Local /\ w.pend = {} /\ w.pc \in {"idle", "stopped"}
  BY AtRestFacts, Zenon
<1> QED
  BY <1>2, <1>3, OneProc, ZenonT(30)

\* The monitor records the timeout of a task in the ledger, or ends.
LEMMA ExpireRecords ==
    ASSUME CLITyped, ExpireRecord
    PROVE  /\ proc' \in [Procs -> Local]
           /\ \A q \in Procs \ {Monitor} : proc'[q] = proc[q]
           /\ proc'[Monitor].pc \in {"record", "stopped"}
           /\ proc'[Monitor].pend \subseteq proc[Monitor].pend
           /\ \/ UNCHANGED ledgerVars
              \/ \E t \in TaskIDs : RecordHITL(t, TimeoutActor, "timeout_escalated", NoRequest)
<1>1. Monitor \in Procs /\ proc[Monitor] \in Local
  BY DEF Procs, CLITyped
<1>2. PICK x \in proc[Monitor].due :
        \/ /\ RecordHITL(x[1], TimeoutActor, "timeout_escalated", NoRequest)
           /\ proc' = [proc EXCEPT ![Monitor].due = @ \ {x}]
        \/ /\ proc' = [proc EXCEPT ![Monitor] = Ended(Monitor, TRUE)]
           /\ UNCHANGED <<tracked, task, clock>>
  BY ZenonT(30) DEF ExpireRecord
<1>3. x[1] \in TaskIDs
  BY <1>1, LocalFields, Zenon
<1> DEFINE v == [proc[Monitor] EXCEPT !.due = @ \ {x}]
           z == Ended(Monitor, TRUE)
<1>4. proc[Monitor].due \ {x} \in SUBSET (TaskIDs \X (0..MaxClock))
  BY <1>1, LocalFields, ZenonT(30)
<1>5. v \in Local
  BY <1>1, <1>4, LocalFields, Zenon
<1>6. v.pc = "record" /\ v.pend = proc[Monitor].pend
  BY <1>1, Zenon DEF Local, ExpireRecord
<1>7. z \in Local /\ z.pc = "stopped" /\ z.pend = {}
  BY AtRestFacts, Zenon DEF Ended
<1>8. \/ /\ RecordHITL(x[1], TimeoutActor, "timeout_escalated", NoRequest)
         /\ proc' = [proc EXCEPT ![Monitor] = v]
      \/ proc' = [proc EXCEPT ![Monitor] = z] /\ UNCHANGED <<tracked, task, clock>>
  BY <1>1, <1>2, Zenon DEF CLITyped
<1> HIDE DEF v, z
<1>9. CASE /\ RecordHITL(x[1], TimeoutActor, "timeout_escalated", NoRequest)
           /\ proc' = [proc EXCEPT ![Monitor] = v]
  BY <1>1, <1>3, <1>5, <1>6, <1>9, OneProc, Zenon
<1>10. CASE proc' = [proc EXCEPT ![Monitor] = z] /\ UNCHANGED <<tracked, task, clock>>
  BY <1>1, <1>7, <1>10, OneProc, Zenon DEF ledgerVars
<1> QED
  BY <1>8, <1>9, <1>10, Zenon

\* Every step of a command is an operation of the ledger, or leaves it alone.
LEMMA CLIStepsLedger ==
    ASSUME CLITyped, [CLINext]_cliVars PROVE [Next]_ledgerVars
<1>1. CASE UNCHANGED cliVars
  BY <1>1, Zenon DEF cliVars, ledgerVars
<1>2. ASSUME LedgerCommand PROVE [Next]_ledgerVars
  BY <1>2, Zenon DEF LedgerCommand, Next
<1>3. ASSUME CLITick PROVE [Next]_ledgerVars
  BY <1>3, Zenon DEF CLITick, Next
<1>4. ASSUME MonitorStart PROVE [Next]_ledgerVars
  BY <1>4, Zenon DEF MonitorStart, ledgerVars
<1>5. ASSUME ExpireBegin PROVE [Next]_ledgerVars
  BY <1>5, Zenon DEF ExpireBegin, ledgerVars
<1>6. ASSUME ExpireRecord PROVE [Next]_ledgerVars
  BY <1>6, ExpireRecords, Zenon DEF Next
<1>7. ASSUME ExpireRecorded PROVE [Next]_ledgerVars
  BY <1>7, Zenon DEF ExpireRecorded, ledgerVars
<1>8. ASSUME NEW p \in Procs, ListPending(p) PROVE [Next]_ledgerVars
  BY <1>8, Zenon DEF ListPending, ledgerVars
<1>9. ASSUME NEW p \in Procs, Complete(p) PROVE [Next]_ledgerVars
  <2>1. proc[p].item.task \in TaskIDs /\ proc[p].ok \in BOOLEAN
    BY <1>9, LocalFields, Zenon DEF CLITyped, Complete, Notice
  <2> QED
    BY <1>9, <2>1, Zenon DEF Complete, Next
<1>10. ASSUME NEW p \in Procs, Finish(p) PROVE [Next]_ledgerVars
  BY <1>10, Zenon DEF Finish, ledgerVars
<1>11. ASSUME NEW p \in Procs, NEW x \in proc[p].pend, NEW received \in BOOLEAN, NEW ok \in BOOLEAN,
    PostHook(p, x, received, ok) PROVE [Next]_ledgerVars
  BY <1>11, Zenon DEF PostHook, ledgerVars
<1>12. ASSUME NEW p \in Procs, RetryBegin(p) PROVE [Next]_ledgerVars
  BY <1>12, Zenon DEF RetryBegin, ledgerVars
<1>13. ASSUME NEW p \in Operators, NEW t \in TaskIDs, NEW r \in HitlFlags \cup {task[t].request},
    HITLTimeout(p, t, r) PROVE [Next]_ledgerVars
  BY <1>13, Zenon DEF HITLTimeout, RecordHITL, MayDecide, Next
<1>14. ASSUME NEW p \in Procs, Crash(p) PROVE [Next]_ledgerVars
  BY <1>14, Zenon DEF Crash, ledgerVars
<1> QED
  BY <1>1, <1>2, <1>3, <1>4, <1>5, <1>6, <1>7, <1>8, <1>9, <1>10, <1>11, <1>12, <1>13, <1>14 DEF
      CLINext, MonitorStep, Procs

\* Every step keeps the types.
LEMMA CLITypedKept ==
    ASSUME CLITyped, [CLINext]_cliVars PROVE CLITyped'
<1>0. TypeOK'
  BY CLIStepsLedger, TypeStep, Zenon DEF CLITyped
<1> USE <1>0
<1>1. CASE UNCHANGED cliVars
  BY <1>1, Zenon DEF CLITyped, cliVars
<1>2. ASSUME LedgerCommand PROVE CLITyped'
  BY <1>2, Zenon DEF CLITyped, LedgerCommand
<1>3. ASSUME CLITick PROVE CLITyped'
  BY <1>3, Zenon DEF CLITyped, CLITick
<1>4. ASSUME MonitorStart PROVE CLITyped'
  BY <1>4, ProcRests, Zenon DEF CLITyped, MonitorStart, Procs
<1>5. ASSUME ExpireBegin PROVE CLITyped'
  BY <1>5, BegunExpire, Zenon DEF CLITyped, ExpireBegin, Procs
<1>6. ASSUME ExpireRecord PROVE CLITyped'
  BY <1>6, ExpireRecords, Zenon DEF CLITyped, ExpireRecord, Procs
<1>7. ASSUME ExpireRecorded PROVE CLITyped'
  BY <1>7, ExpireDone, Zenon DEF CLITyped, ExpireRecorded, Procs
<1>8. ASSUME NEW p \in Procs, ListPending(p) PROVE CLITyped'
  BY <1>8, PendingListed, Zenon DEF CLITyped, ListPending, Procs
<1>9. ASSUME NEW p \in Procs, Complete(p) PROVE CLITyped'
  BY <1>9, Completed, Zenon DEF CLITyped, Complete, Procs
<1>10. ASSUME NEW p \in Procs, Finish(p) PROVE CLITyped'
  BY <1>10, ProcRests, Zenon DEF CLITyped, Finish, Procs
<1>11. ASSUME NEW p \in Procs, NEW x \in proc[p].pend, NEW received \in BOOLEAN, NEW ok \in BOOLEAN,
    PostHook(p, x, received, ok) PROVE CLITyped'
  <2>1. x \in Notice
    BY <1>11, LocalFields, Zenon DEF CLITyped
  <2>2. posted' \subseteq Notice
    BY <1>11, <2>1, Zenon DEF CLITyped, PostHook
  <2> QED
    BY <1>11, <2>1, <2>2, Hooked DEF CLITyped
<1>12. ASSUME NEW p \in Procs, RetryBegin(p) PROVE CLITyped'
  BY <1>12, RetryBegun, Zenon DEF CLITyped, RetryBegin, Procs
<1>13. ASSUME NEW p \in Operators, NEW t \in TaskIDs, NEW r \in HitlFlags \cup {task[t].request},
    HITLTimeout(p, t, r) PROVE CLITyped'
  <2>1. r \in Requests \cup {NoRequest} /\ p \in Procs
    BY CLIAssumption, Zenon DEF CLITyped, TypeOK, Task, Procs
  <2> QED
    BY <1>13, <2>1, TimeoutTold, Zenon DEF CLITyped, HITLTimeout
<1>14. ASSUME NEW p \in Procs, Crash(p) PROVE CLITyped'
  BY <1>14, ProcRests, Zenon DEF CLITyped, Crash, Procs
<1> QED
  BY <1>1, <1>2, <1>3, <1>4, <1>5, <1>6, <1>7, <1>8, <1>9, <1>10, <1>11, <1>12, <1>13, <1>14 DEF
      CLINext, MonitorStep, Procs

\* Decisions are only added to a tracked task, and a task stays tracked.
LEMMA DecisionsGrow ==
    ASSUME TypeOK, [Next]_ledgerVars, NEW u \in tracked
    PROVE  /\ u \in tracked'
           /\ \A n \in 1..Len(task[u].decisions) :
                n \in 1..Len(task'[u].decisions) /\ task'[u].decisions[n] = task[u].decisions[n]
<1> DEFINE G == /\ u \in tracked'
                /\ \A n \in 1..Len(task[u].decisions) :
                     /\ n \in 1..Len(task'[u].decisions)
                     /\ task'[u].decisions[n] = task[u].decisions[n]
<1>0. u \in TaskIDs /\ task[u] \in Task /\ task \in [TaskIDs -> Task]
  BY DEF TypeOK
<1>u. ASSUME u \in tracked', task'[u].decisions = task[u].decisions PROVE G
  BY <1>u, Zenon
<1>1. ASSUME NEW t \in TaskIDs, NEW i \in Incidents, NEW r \in Rooms, Initialize(t, i, r)
      PROVE  G
  BY <1>0, <1>1, <1>u, Zenon DEF Initialize
<1>2. ASSUME NEW t \in TaskIDs, NEW x \in AdvanceArgs, Advance(t, x[1], x[2])
      PROVE  G
  <2>1. AdvancedTask(task[u], x[1], x[2]).decisions = task[u].decisions
    BY <1>0, Zenon DEF AdvancedTask, Task
  <2>2. task'[u] \in {task[u], AdvancedTask(task[u], x[1], x[2])} /\ u \in tracked'
    BY <1>0, <1>2, Zenon DEF Advance
  <2> QED
    BY <1>u, <2>1, <2>2, Zenon
<1>3. ASSUME NEW t \in TaskIDs, NEW a \in Admins, NEW r \in Requests, StartHITL(t, a, r)
      PROVE  G
  <2>1. StartedTask(task[u], a, r, clock).decisions = task[u].decisions
    BY <1>0, Zenon DEF StartedTask, Task
  <2>2. task'[u] \in {task[u], StartedTask(task[u], a, r, clock)} /\ u \in tracked'
    BY <1>0, <1>3, Zenon DEF StartHITL
  <2> QED
    BY <1>u, <2>1, <2>2, Zenon
<1>4. ASSUME NEW t \in TaskIDs, NEW a \in Admins \cup {TimeoutActor}, NEW d \in Decisions,
             NEW r, RecordHITL(t, a, d, r)
      PROVE  G
  <2> DEFINE e == [admin |-> a, decision |-> d, request |-> task[u].request]
             E == [admin : Admins \cup {TimeoutActor}, decision : Decisions,
                   request : Requests \cup {NoRequest}]
  <2>1. DecidedTask(task[u], a, d).decisions = Append(task[u].decisions, e)
    BY <1>0, Zenon DEF DecidedTask, Task
  <2>2. task'[u] \in {task[u], DecidedTask(task[u], a, d)} /\ u \in tracked'
    BY <1>0, <1>4, Zenon DEF RecordHITL
  <2>3. task[u].decisions \in Seq(E) /\ e \in E
    BY <1>0, Zenon DEF Task
  <2>4. CASE task'[u].decisions = Append(task[u].decisions, e)
    <3> HIDE DEF e, E
    <3> QED
      BY <2>2, <2>3, <2>4
  <2> QED
    BY <1>u, <2>1, <2>2, <2>4, Zenon
<1>5. ASSUME NEW t \in TaskIDs, NEW ok \in BOOLEAN, CompleteEscalation(t, ok)
      PROVE  G
  <2>1. task'[u].decisions = task[u].decisions /\ u \in tracked'
    BY <1>0, <1>5, Zenon DEF CompleteEscalation, Task
  <2> QED
    BY <1>u, <2>1, Zenon
<1>6. ASSUME NEW t \in TaskIDs, NEW id \in AuditIDs, AddAudit(t, id)
      PROVE  G
  <2>1. task'[u].decisions = task[u].decisions /\ u \in tracked'
    BY <1>0, <1>6, Zenon DEF AddAudit, Task
  <2> QED
    BY <1>u, <2>1, Zenon
<1>7. Tick \/ UNCHANGED ledgerVars => G
  BY <1>u, Zenon DEF Tick, ledgerVars
<1> QED
  BY <1>1, <1>2, <1>3, <1>4, <1>5, <1>6, <1>7, Zenon DEF Next, Decisions

\* What is on record stays on record.
LEMMA RecordStays ==
    ASSUME TypeOK, [Next]_ledgerVars, NEW x, Recorded(x) PROVE Recorded(x)'
BY DecisionsGrow, Zenon DEF Recorded

\* What PendingEscalations lists is on record.
LEMMA PendingRecorded ==
    ASSUME LedgerInv, NEW x \in PendingEscalations PROVE Recorded(x) /\ Current(x)
<1>1. PICK t \in tracked : /\ Undelivered(t)
                           /\ x = [task |-> t, request |-> task[t].escalation.request]
  BY Zenon DEF PendingEscalations
<1>2. x.task = t /\ x.request = task[t].escalation.request
  BY <1>1, Zenon
<1>3. \E n \in 1..Len(task[t].decisions) :
        /\ task[t].decisions[n].decision = "timeout_escalated"
        /\ task[t].decisions[n].request = x.request
  BY <1>1, <1>2, Zenon
     DEF LedgerInv, EscalationHasDecision, EscalationAgrees, LastTimeout, Undelivered
<1> QED
  BY <1>2, <1>3, Zenon DEF Recorded, Current

\* A timeout records the request that is outstanding.
LEMMA TimeoutRecorded ==
    ASSUME TypeOK, NEW t \in TaskIDs, NEW r, NEW x, x.task = t, x.request = task[t].request,
           RecordHITL(t, TimeoutActor, "timeout_escalated", r)
    PROVE  Recorded(x)'
<1> DEFINE e == [admin |-> TimeoutActor, decision |-> "timeout_escalated",
                 request |-> task[t].request]
           E == [admin : Admins \cup {TimeoutActor}, decision : Decisions,
                 request : Requests \cup {NoRequest}]
<1>1. /\ task[t] \in Task /\ t \in tracked'
      /\ task'[t] = DecidedTask(task[t], TimeoutActor, "timeout_escalated")
  BY Zenon DEF TypeOK, RecordHITL
<1>2. task'[t].decisions = Append(task[t].decisions, e)
  BY <1>1, Zenon DEF DecidedTask, Task
<1>3. task[t].decisions \in Seq(E) /\ e \in E
  BY <1>1, Zenon DEF Task, Decisions
<1>4. e.decision = "timeout_escalated" /\ e.request = task[t].request
  BY Zenon
<1> HIDE DEF e, E
<1>5. /\ Len(task'[t].decisions) = Len(task[t].decisions) + 1 /\ Len(task[t].decisions) \in Nat
      /\ task'[t].decisions[Len(task[t].decisions) + 1] = e
  BY <1>2, <1>3
<1>6. \E n \in 1..Len(task'[t].decisions) :
        /\ task'[t].decisions[n].decision = "timeout_escalated"
        /\ task'[t].decisions[n].request = task[t].request
  BY <1>4, <1>5, SMTT(30)
<1> QED
  BY <1>1, <1>6, Zenon DEF Recorded

\* Every step keeps what is posted, or to be posted, on record.
LEMMA NoticesKept ==
    ASSUME CLITyped, LedgerInv, NoticesRecorded, [CLINext]_cliVars PROVE NoticesRecorded'
<1>0. \A x : Recorded(x) => Recorded(x)'
  BY CLIStepsLedger, RecordStays, Zenon DEF LedgerInv
<1>1. CASE UNCHANGED cliVars
  BY <1>0, <1>1, Zenon DEF NoticesRecorded, cliVars
<1>2. ASSUME LedgerCommand PROVE NoticesRecorded'
  BY <1>2, <1>0, Zenon DEF NoticesRecorded, LedgerCommand
<1>3. ASSUME CLITick PROVE NoticesRecorded'
  BY <1>3, <1>0, Zenon DEF NoticesRecorded, CLITick
<1>4. ASSUME MonitorStart PROVE NoticesRecorded'
  BY <1>4, <1>0, ProcRests, Zenon DEF NoticesRecorded, MonitorStart, Procs
<1>5. ASSUME ExpireBegin PROVE NoticesRecorded'
  BY <1>5, <1>0, BegunExpire, Zenon DEF NoticesRecorded, ExpireBegin, Procs
<1>6. ASSUME ExpireRecord PROVE NoticesRecorded'
  <2>1. posted' = posted
    BY <1>6, Zenon DEF ExpireRecord
  <2> QED
    BY <1>6, <1>0, <2>1, ExpireRecords, Zenon DEF NoticesRecorded, Procs
<1>7. ASSUME ExpireRecorded PROVE NoticesRecorded'
  BY <1>7, <1>0, ExpireDone DEF NoticesRecorded, ExpireRecorded, Procs
<1>8. ASSUME NEW p \in Procs, ListPending(p) PROVE NoticesRecorded'
  <2>1. \A x \in PendingEscalations : Recorded(x)'
    BY <1>0, PendingRecorded, Zenon
  <2>2. posted' = posted
    BY <1>8, Zenon DEF ListPending
  <2> QED
    BY <1>8, <1>0, <2>1, <2>2, PendingListed, Zenon DEF NoticesRecorded
<1>9. ASSUME NEW p \in Procs, Complete(p) PROVE NoticesRecorded'
  BY <1>9, <1>0, Completed, Zenon DEF NoticesRecorded, Complete, Procs
<1>10. ASSUME NEW p \in Procs, Finish(p) PROVE NoticesRecorded'
  BY <1>10, <1>0, ProcRests, Zenon DEF NoticesRecorded, Finish, Procs
<1>11. ASSUME NEW p \in Procs, NEW x \in proc[p].pend, NEW received \in BOOLEAN, NEW ok \in BOOLEAN,
    PostHook(p, x, received, ok) PROVE NoticesRecorded'
  <2>1. posted' \subseteq posted \cup {x} /\ x \in proc[p].pend
    BY <1>11, Zenon DEF PostHook
  <2>2. proc'[p].pend \subseteq proc[p].pend /\ \A q \in Procs \ {p} : proc'[q] = proc[q]
    BY <1>11, Hooked
  <2> QED
    BY <1>0, <2>1, <2>2, Zenon DEF NoticesRecorded
<1>12. ASSUME NEW p \in Procs, RetryBegin(p) PROVE NoticesRecorded'
  BY <1>12, <1>0, RetryBegun, Zenon DEF NoticesRecorded, RetryBegin, Procs
<1>13. ASSUME NEW p \in Operators, NEW t \in TaskIDs, NEW r \in HitlFlags \cup {task[t].request},
    HITLTimeout(p, t, r) PROVE NoticesRecorded'
  <2> DEFINE y == [task |-> t, request |-> r]
  <2>1. r \in Requests \cup {NoRequest} /\ p \in Procs
    BY CLIAssumption, Zenon DEF CLITyped, TypeOK, Task, Procs
  <2>2. y.request \in HitlFlags \/ Recorded(y)'
    <3>0. y.task = t /\ y.request = r
      BY Zenon
    <3>1. r = task[t].request => Recorded(y)'
      BY <1>13, <3>0, TimeoutRecorded, Zenon DEF HITLTimeout, LedgerInv
    <3> QED
      BY <3>0, <3>1, Zenon
  <2>3. posted' = posted /\ proc'[p].pend = {y} /\ \A q \in Procs \ {p} : proc'[q] = proc[q]
    BY <1>13, <2>1, TimeoutTold, Zenon DEF HITLTimeout
  <2> HIDE DEF y
  <2> QED
    BY <1>0, <2>1, <2>2, <2>3, Zenon DEF NoticesRecorded
<1>14. ASSUME NEW p \in Procs, Crash(p) PROVE NoticesRecorded'
  BY <1>14, <1>0, ProcRests, Zenon DEF NoticesRecorded, Crash, Procs
<1> QED
  BY <1>1, <1>2, <1>3, <1>4, <1>5, <1>6, <1>7, <1>8, <1>9, <1>10, <1>11, <1>12, <1>13, <1>14,
     Zenon DEF
      CLINext, MonitorStep, Procs

\* No step but a timeout of the ledger changes the request of an escalation, and
\* only CompleteEscalation changes its status otherwise.
LEMMA EscalationStays ==
    ASSUME TypeOK, LedgerCommand \/ Tick \/ UNCHANGED ledgerVars, NEW u \in tracked
    PROVE  u \in tracked' /\ task'[u].escalation = task[u].escalation
<1>0. u \in TaskIDs /\ task[u] \in Task /\ task \in [TaskIDs -> Task]
  BY Zenon DEF TypeOK
<1>1. ASSUME NEW t \in TaskIDs, NEW i \in Incidents, NEW r \in Rooms, Initialize(t, i, r)
      PROVE  u \in tracked' /\ task'[u].escalation = task[u].escalation
  BY <1>0, <1>1, Zenon DEF Initialize
<1>2. ASSUME NEW t \in TaskIDs, NEW x \in AdvanceArgs, Advance(t, x[1], x[2])
      PROVE  u \in tracked' /\ task'[u].escalation = task[u].escalation
  <2>1. AdvancedTask(task[u], x[1], x[2]).escalation = task[u].escalation
    BY <1>0, Zenon DEF AdvancedTask, Task
  <2>2. task'[u] \in {task[u], AdvancedTask(task[u], x[1], x[2])} /\ u \in tracked'
    BY <1>0, <1>2, Zenon DEF Advance
  <2> QED
    BY <2>1, <2>2, Zenon
<1>3. ASSUME NEW t \in TaskIDs, NEW a \in Admins, NEW r \in Requests, StartHITL(t, a, r)
      PROVE  u \in tracked' /\ task'[u].escalation = task[u].escalation
  <2>1. StartedTask(task[u], a, r, clock).escalation = task[u].escalation
    BY <1>0, Zenon DEF StartedTask, Task
  <2>2. task'[u] \in {task[u], StartedTask(task[u], a, r, clock)} /\ u \in tracked'
    BY <1>0, <1>3, Zenon DEF StartHITL
  <2> QED
    BY <2>1, <2>2, Zenon
<1>4. ASSUME NEW t \in TaskIDs, NEW a \in Admins, NEW d \in {"approved", "rejected"},
             NEW r \in Requests, RecordHITL(t, a, d, r)
      PROVE  u \in tracked' /\ task'[u].escalation = task[u].escalation
  <2>1. DecidedTask(task[u], a, d).escalation = task[u].escalation
    BY <1>0, Zenon DEF DecidedTask, Task, EscalationAfter
  <2>2. task'[u] \in {task[u], DecidedTask(task[u], a, d)} /\ u \in tracked'
    BY <1>0, <1>4, Zenon DEF RecordHITL
  <2> QED
    BY <2>1, <2>2, Zenon
<1>5. Tick \/ UNCHANGED ledgerVars => u \in tracked' /\ task'[u].escalation = task[u].escalation
  BY Zenon DEF Tick, ledgerVars
<1> QED
  BY <1>1, <1>2, <1>3, <1>4, <1>5, Zenon DEF LedgerCommand

\* CompleteEscalation keeps the request of every escalation, and the status of
\* all but one.
LEMMA CompleteKeeps ==
    ASSUME TypeOK, NEW t, NEW ok \in BOOLEAN, CompleteEscalation(t, ok), NEW u \in tracked
    PROVE  /\ u \in tracked' /\ task'[u].escalation.request = task[u].escalation.request
           /\ u # t => task'[u] = task[u]
           /\ u = t => task'[u].escalation.status = IF ok THEN "delivered" ELSE "failed"
<1>0. u \in TaskIDs /\ task[u] \in Task /\ task \in [TaskIDs -> Task]
  BY Zenon DEF TypeOK
<1>1. u \in tracked' /\ (u # t => task'[u] = task[u])
  BY <1>0, Zenon DEF CompleteEscalation
<1> DEFINE e == [task[u].escalation EXCEPT !.status = IF ok THEN "delivered" ELSE "failed"]
<1>2. u = t => task'[u].escalation = e
  BY <1>0, Zenon DEF CompleteEscalation, Task
<1>3. e.request = task[u].escalation.request /\ e.status = IF ok THEN "delivered" ELSE "failed"
  BY <1>0, Zenon DEF Task
<1> HIDE DEF e
<1> QED
  BY <1>1, <1>2, <1>3, Zenon

\* A timeout opens an escalation that is pending, and leaves the others.
LEMMA TimeoutOpens ==
    ASSUME TypeOK, NEW t \in TaskIDs, NEW u \in tracked',
           RecordHITL(t, TimeoutActor, "timeout_escalated", NoRequest)
    PROVE  /\ u # t => u \in tracked /\ task'[u] = task[u]
           /\ u = t => task'[u].escalation.status = "pending"
<1>1. u \in TaskIDs /\ u \in tracked /\ task \in [TaskIDs -> Task] /\ task[u] \in Task
  BY Zenon DEF TypeOK, RecordHITL
<1>2. u # t => task'[u] = task[u]
  BY <1>1, Zenon DEF RecordHITL
<1>3. u = t => task'[u] = DecidedTask(task[u], TimeoutActor, "timeout_escalated")
  BY <1>1, Zenon DEF RecordHITL
<1>4. DecidedTask(task[u], TimeoutActor, "timeout_escalated").escalation =
        EscalationAfter(task[u], "timeout_escalated")
  BY <1>1, Zenon DEF DecidedTask, Task
<1>5. EscalationAfter(task[u], "timeout_escalated").status = "pending"
  BY Zenon DEF EscalationAfter
<1> QED
  BY <1>1, <1>2, <1>3, <1>4, <1>5, Zenon

\* A step that leaves the escalations of the ledger alone.
LEMMA EscalationsSame ==
    ASSUME TypeOK, LedgerCommand \/ Tick \/ UNCHANGED ledgerVars
    PROVE  /\ \A x : Current(x) => Current(x)'
           /\ DeliveredWasPosted /\ posted \subseteq posted' => DeliveredWasPosted'
<1>1. \A u \in tracked : u \in tracked' /\ task'[u].escalation = task[u].escalation
  BY EscalationStays, Zenon
<1>2. \A u \in tracked' \ tracked : task'[u].escalation.status = "none"
  <2>1. ASSUME NEW t \in TaskIDs, NEW i \in Incidents, NEW r \in Rooms, Initialize(t, i, r),
               NEW u \in tracked' \ tracked
        PROVE  task'[u].escalation.status = "none"
    BY <2>1, Zenon DEF TypeOK, Initialize, NewTask
  <2>2. \/ tracked' = tracked
        \/ \E t \in TaskIDs, i \in Incidents, r \in Rooms : Initialize(t, i, r)
    BY Zenon DEF LedgerCommand, Advance, StartHITL, RecordHITL, Tick, ledgerVars
  <2> QED
    BY <2>1, <2>2, Zenon
<1>3. \A x : Current(x) => Current(x)'
  BY <1>1, Zenon DEF Current
<1>4. DeliveredWasPosted /\ posted \subseteq posted' => DeliveredWasPosted'
  BY <1>1, <1>2, Zenon DEF DeliveredWasPosted
<1> QED
  BY <1>3, <1>4, Zenon

\* With no other process that records timeouts, the monitor stays up to date.
LEMMA MonitorKept ==
    ASSUME CLITyped, LedgerInv, MonitorUpToDate, DeliveredWasPosted, Operators = {},
        [CLINext]_cliVars PROVE (MonitorUpToDate /\ DeliveredWasPosted)'
<1>1. CASE UNCHANGED cliVars
  BY <1>1, Zenon DEF MonitorUpToDate, DeliveredWasPosted, Current, cliVars
<1>2. ASSUME LedgerCommand PROVE (MonitorUpToDate /\ DeliveredWasPosted)'
  <2>1. UNCHANGED <<proc, posted>>
    BY <1>2, Zenon DEF LedgerCommand
  <2>2. (\A x : Current(x) => Current(x)') /\ DeliveredWasPosted'
    BY <1>2, <2>1, EscalationsSame, Zenon DEF CLITyped, CLITick
  <2> QED
    BY <2>1, <2>2, Zenon DEF MonitorUpToDate
<1>3. ASSUME CLITick PROVE (MonitorUpToDate /\ DeliveredWasPosted)'
  <2>1. UNCHANGED <<proc, posted>>
    BY <1>3, Zenon DEF CLITick
  <2>2. (\A x : Current(x) => Current(x)') /\ DeliveredWasPosted'
    BY <1>3, <2>1, EscalationsSame, Zenon DEF CLITyped, CLITick
  <2> QED
    BY <2>1, <2>2 DEF MonitorUpToDate
<1>4. ASSUME MonitorStart PROVE (MonitorUpToDate /\ DeliveredWasPosted)'
  <2>1. UNCHANGED <<tracked, task, clock>> /\ posted \subseteq posted'
    BY <1>4, Zenon DEF MonitorStart
  <2>2. (\A x : Current(x) => Current(x)') /\ DeliveredWasPosted'
    BY <2>1, EscalationsSame, Zenon DEF ledgerVars, CLITyped
  <2> QED
    BY <1>4, <2>1, <2>2, ProcRests, Zenon DEF MonitorUpToDate, MonitorStart, Procs
<1>5. ASSUME ExpireBegin PROVE (MonitorUpToDate /\ DeliveredWasPosted)'
  <2>1. UNCHANGED <<tracked, task, clock>> /\ posted \subseteq posted'
    BY <1>5, Zenon DEF ExpireBegin
  <2>2. (\A x : Current(x) => Current(x)') /\ DeliveredWasPosted'
    BY <2>1, EscalationsSame DEF ledgerVars, CLITyped
  <2> QED
    BY <1>5, <2>1, <2>2, BegunExpire, Zenon DEF MonitorUpToDate, ExpireBegin, Procs
<1>6. ASSUME ExpireRecord PROVE (MonitorUpToDate /\ DeliveredWasPosted)'
  <2>1. posted' = posted /\ Monitor \in Procs /\ proc[Monitor].pc = "record"
    BY <1>6, Zenon DEF ExpireRecord, Procs
  <2>2. MonitorUpToDate'
    BY <1>6, <2>1, ExpireRecords, Zenon DEF MonitorUpToDate
  <2>3. CASE UNCHANGED ledgerVars
    BY <2>1, <2>2, <2>3, EscalationsSame, Zenon DEF CLITyped
  <2>4. ASSUME NEW t \in TaskIDs, RecordHITL(t, TimeoutActor, "timeout_escalated", NoRequest)
        PROVE  DeliveredWasPosted'
    BY <2>1, <2>4, TimeoutOpens, Zenon DEF CLITyped, DeliveredWasPosted
  <2> QED
    BY <1>6, <2>2, <2>3, <2>4, ExpireRecords, Zenon
<1>7. ASSUME ExpireRecorded PROVE (MonitorUpToDate /\ DeliveredWasPosted)'
  <2>1. UNCHANGED <<tracked, task, clock>> /\ posted \subseteq posted'
    BY <1>7, Zenon DEF ExpireRecorded
  <2>2. (\A x : Current(x) => Current(x)') /\ DeliveredWasPosted'
    BY <2>1, EscalationsSame DEF ledgerVars, CLITyped
  <2> QED
    BY <1>7, <2>1, <2>2, ExpireDone, Zenon DEF MonitorUpToDate, ExpireRecorded, Procs
<1>8. ASSUME ListPending(Monitor) PROVE (MonitorUpToDate /\ DeliveredWasPosted)'
  <2>1. UNCHANGED <<tracked, task, clock, posted>> /\ Monitor \in Procs
    BY <1>8, Zenon DEF ListPending, Procs
  <2>2. (\A x : Current(x) => Current(x)') /\ DeliveredWasPosted'
    BY <2>1, EscalationsSame, Zenon DEF ledgerVars, CLITyped
  <2>3. \A x \in PendingEscalations : Current(x)'
    BY <2>2, PendingRecorded, Zenon
  <2> QED
    BY <1>8, <2>1, <2>2, <2>3, PendingListed, Zenon DEF MonitorUpToDate
<1>9. ASSUME Complete(Monitor) PROVE (MonitorUpToDate /\ DeliveredWasPosted)'
  <2> DEFINE t == proc[Monitor].item.task
             n == proc[Monitor].item
  <2>1. /\ Monitor \in Procs /\ n \in Notice /\ proc[Monitor].ok \in BOOLEAN
        /\ posted' = posted /\ tracked' = tracked
    BY <1>9, LocalFields, Zenon DEF CLITyped, Complete, CompleteEscalation, Procs
  <2>2. /\ Current(n) /\ (proc[Monitor].ok => n \in posted)
        /\ CompleteEscalation(t, proc[Monitor].ok)
    BY <1>9, Zenon DEF MonitorUpToDate, Complete
  <2>3. n = [task |-> t, request |-> n.request]
    BY <2>1, Zenon DEF Notice
  <2>4. ASSUME NEW u \in tracked
        PROVE  /\ task'[u].escalation.request = task[u].escalation.request
               /\ u # t => task'[u] = task[u]
               /\ u = t => task'[u].escalation.status = IF proc[Monitor].ok THEN "delivered" ELSE
                   "failed"
    BY <2>1, <2>2, CompleteKeeps DEF CLITyped
  <2>5. \A x : Current(x) => Current(x)'
    BY <2>1, <2>4, Zenon DEF Current
  <2>6. MonitorUpToDate'
    BY <1>9, <2>1, <2>5, Completed, Zenon DEF MonitorUpToDate
  <2>7. n.request = task[t].escalation.request
    BY <2>2, Zenon DEF Current
  <2> HIDE DEF n, t
  <2>8. DeliveredWasPosted'
    <3> SUFFICES ASSUME NEW u \in tracked, task'[u].escalation.status = "delivered"
                 PROVE  [task |-> u, request |-> task'[u].escalation.request] \in posted
      BY <2>1, Zenon DEF DeliveredWasPosted
    <3>1. CASE u # t
      BY <2>4, <3>1, Zenon DEF DeliveredWasPosted
    <3>2. CASE u = t
      <4>1. proc[Monitor].ok
        BY <2>4, <3>2, Zenon
      <4>2. n \in posted /\ n.request = task'[u].escalation.request
        BY <2>2, <2>4, <2>7, <3>2, <4>1, Zenon
      <4> QED
        BY <2>3, <3>2, <4>2, Zenon
    <3> QED
      BY <3>1, <3>2, Zenon
  <2> QED
    BY <2>6, <2>8, Zenon
<1>10. ASSUME Finish(Monitor) PROVE (MonitorUpToDate /\ DeliveredWasPosted)'
  <2>1. UNCHANGED <<tracked, task, clock>> /\ posted \subseteq posted'
    BY <1>10, Zenon DEF Finish
  <2>2. (\A x : Current(x) => Current(x)') /\ DeliveredWasPosted'
    BY <2>1, EscalationsSame DEF ledgerVars, CLITyped
  <2> QED
    BY <1>10, <2>1, <2>2, ProcRests, Zenon DEF MonitorUpToDate, Finish, Procs
<1>11. ASSUME NEW x \in proc[Monitor].pend, NEW received \in BOOLEAN, NEW ok \in BOOLEAN,
    PostHook(Monitor, x, received, ok) PROVE (MonitorUpToDate /\ DeliveredWasPosted)'
  <2>1. UNCHANGED <<tracked, task, clock>> /\ posted \subseteq posted' /\ Monitor \in Procs
    BY <1>11, Zenon DEF PostHook, Procs
  <2>2. (\A y : Current(y) => Current(y)') /\ DeliveredWasPosted'
    BY <2>1, EscalationsSame, Zenon DEF ledgerVars, CLITyped
  <2>3. x \in proc[Monitor].pend /\ (ok => x \in posted')
    BY <1>11, Zenon DEF PostHook
  <2>4. Current(x)'
    BY <2>2, <2>3, Zenon DEF MonitorUpToDate
  <2> QED
    BY <1>11, <2>1, <2>2, <2>3, <2>4, Hooked DEF MonitorUpToDate
<1>12. ASSUME Crash(Monitor) PROVE (MonitorUpToDate /\ DeliveredWasPosted)'
  <2>1. UNCHANGED <<tracked, task, clock>> /\ posted \subseteq posted'
    BY <1>12, Zenon DEF Crash
  <2>2. (\A x : Current(x) => Current(x)') /\ DeliveredWasPosted'
    BY <2>1, EscalationsSame DEF ledgerVars, CLITyped
  <2> QED
    BY <1>12, <2>1, <2>2, ProcRests, Zenon DEF MonitorUpToDate, Crash, Procs
<1> QED
  BY <1>1, <1>2, <1>3, <1>4, <1>5, <1>6, <1>7, <1>8, <1>9, <1>10, <1>11, <1>12, SMTT(30)
     DEF CLINext,
      MonitorStep, Procs

-----------------------------------------------------------------------------

\* The types hold of every process.
LEMMA CLITypes == CLISpec => []CLITyped
<1>1. CLIInit => CLITyped
  <2> SUFFICES ASSUME CLIInit PROVE CLITyped
    BY Zenon
  <2>1. TypeOK
    BY TypeInit, Zenon DEF CLIInit
  <2>2. \A p \in Procs : proc[p] \in {AtRest("idle"), AtRest("stopped")}
    BY Zenon DEF CLIInit
  <2>3. \A p \in Procs : proc[p] \in Local /\ proc[p].pc # "complete"
    BY <2>2, AtRestFacts, Zenon
  <2> QED
    BY <2>1, <2>3, Zenon DEF CLIInit, CLITyped
<1>2. CLITyped /\ [CLINext]_cliVars => CLITyped'
  BY CLITypedKept
<1> QED
  BY <1>1, <1>2, PTL DEF CLISpec

\* The commands, interleaved and killed half-way as they may be, implement the
\* ledger: what they do to state.json is what the ledger's operations do.
THEOREM CLIImplementsLedger == CLISpec => Spec
<1>1. CLIInit => Init
  BY Zenon DEF CLIInit
<1>2. CLITyped /\ [CLINext]_cliVars => [Next]_ledgerVars
  BY CLIStepsLedger, Zenon
<1> QED
  BY <1>1, <1>2, CLITypes, PTL DEF CLISpec, Spec

\* So the ledger's invariants hold under the commands.
LEMMA CLILedgerInv == CLISpec => [](CLITyped /\ LedgerInv)
BY CLITypes, CLIImplementsLedger, LedgerSafe, PTL

\* What was posted is on record, or names a wrong request that hitl was given.
THEOREM CLINotices == CLISpec => []NoticesRecorded
<1>1. CLIInit => NoticesRecorded
  <2> SUFFICES ASSUME CLIInit PROVE NoticesRecorded
    OBVIOUS
  <2>1. \A p \in Procs : proc[p] \in {AtRest("idle"), AtRest("stopped")}
    BY DEF CLIInit
  <2>2. \A p \in Procs : proc[p].pend = {}
    BY <2>1, AtRestFacts, Zenon
  <2> QED
    BY <2>2, Zenon DEF CLIInit, NoticesRecorded
<1>2. CLITyped /\ LedgerInv /\ NoticesRecorded /\ [CLINext]_cliVars => NoticesRecorded'
  BY NoticesKept, Zenon
<1> QED
  BY <1>1, <1>2, CLILedgerInv, PTL DEF CLISpec

\* When hitl is given no wrong request, every notification the webhook received
\* names a request that the ledger records as timed out, whatever the monitor and
\* the operators run at the same time and wherever they are killed.
THEOREM CLIPostedOnRecord ==
    ASSUME HitlFlags = {} PROVE CLISpec => []PostedOnRecord
<1>1. NoticesRecorded => PostedOnRecord
  BY Zenon DEF NoticesRecorded, Recorded, PostedOnRecord
<1> QED
  BY <1>1, CLINotices, PTL

\* With the monitor as the only process that delivers, an escalation that is
\* marked delivered was received, for the request it is about.
THEOREM MonitorDeliveredWasPosted ==
    ASSUME Operators = {} PROVE CLISpec => []DeliveredWasPosted
<1>1. CLIInit => MonitorUpToDate /\ DeliveredWasPosted
  <2> SUFFICES ASSUME CLIInit PROVE MonitorUpToDate /\ DeliveredWasPosted
    BY Zenon
  <2>1. proc[Monitor] = AtRest("stopped")
    BY Zenon DEF CLIInit, Procs
  <2>2. proc[Monitor].pend = {} /\ proc[Monitor].pc = "stopped"
    BY <2>1, AtRestFacts, Zenon
  <2> QED
    BY <2>2, Zenon DEF CLIInit, Init, MonitorUpToDate, DeliveredWasPosted
<1>2. CLITyped /\ LedgerInv /\ MonitorUpToDate /\ DeliveredWasPosted /\ [CLINext]_cliVars
        => (MonitorUpToDate /\ DeliveredWasPosted)'
  BY MonitorKept, Zenon
<1> QED
  BY <1>1, <1>2, CLILedgerInv, PTL DEF CLISpec
=============================================================================
