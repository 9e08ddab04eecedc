---------------------------- MODULE Investigator ----------------------------
(***************************************************************************)
(* The automatic investigation of incidents (biz/alert/investigator and    *)
(* its repository): Enqueue with its gates, the manual ForceEnqueue, the   *)
(* goroutine of each investigation, and what a manager does at its start:  *)
(* FailOrphaned and the backfill of incidents without a report.            *)
(*                                                                         *)
(* Several managers share the table of reports, which has one row at most  *)
(* for an incident (its unique index).  The set inflight and the semaphore *)
(* are of one process.  A worker is spawned synchronously: SpawnWorker     *)
(* returns when the worker has ended, and its id is written to the report  *)
(* after that.  The severity gate comes before any of this; an incident    *)
(* below the floor never gets here.                                        *)
(***************************************************************************)
EXTENDS Integers, FiniteSets

CONSTANTS
    Nodes,              \* manager processes
    IncidentIDs,        \* incidents above the severity floor
    Requesters,         \* goroutines that ask for investigations
    NoReport,           \* no row, and no id of one
    MaxConcurrent,      \* permits of the semaphore
    MaxForces,          \* bound on manual triggers
    MaxInvFaults        \* bound on failed statements, crashes and panics

ASSUME InvestigatorAssumption ==
    /\ IsFiniteSet(IncidentIDs) /\ IsFiniteSet(Requesters)
    /\ MaxConcurrent \in Nat \ {0}
    /\ MaxForces \in Nat
    /\ MaxInvFaults \in Nat
    /\ NoReport \notin Nat

VARIABLES
    raised,         \* incidents that have fired
    forces,         \* manual triggers so far
    report,         \* the row of each incident
    ids,            \* ids of reports that were given out
    enq,            \* the goroutines inside Enqueue and ForceEnqueue
    inv,            \* the goroutine of the investigation of each report
    inflight,       \* the guard of each process
    sem,            \* permits taken, per process
    alive,          \* processes that run
    replaced,       \* history: for each incident, the ids of reports deleted by a trigger
    unwritten,      \* history: reports whose last write failed
    invFaults

invVars == <<raised, forces, report, ids, enq, inv, inflight, sem, alive, replaced,
             unwritten, invFaults>>

guards == <<inflight, sem>>

\* Each row follows the absence of one, and only a trigger deletes one.
Reports == 1..(Cardinality(IncidentIDs) + MaxForces)

Open == {"pending", "running"}

NoRow == [id |-> NoReport, status |-> "none", worker |-> NoReport, by |-> NoReport]

Resting == [pc |-> "rest", node |-> NoReport, inc |-> NoReport, prior |-> NoReport, todo |-> {}]

Absent == [pc |-> "gone", node |-> NoReport, inc |-> NoReport, ok |-> FALSE]

InvInit ==
    /\ raised = {}
    /\ forces = 0
    /\ report = [i \in IncidentIDs |-> NoRow]
    /\ ids = 0
    /\ enq = [q \in Requesters |-> Resting]
    /\ inv = [r \in Reports |-> Absent]
    /\ inflight = [n \in Nodes |-> {}]
    /\ sem = [n \in Nodes |-> 0]
    /\ alive = Nodes
    /\ replaced = [i \in IncidentIDs |-> {}]
    /\ unwritten = {}
    /\ invFaults = 0

InvFault == invFaults < MaxInvFaults /\ invFaults' = invFaults + 1

-----------------------------------------------------------------------------
(* Who asks for an investigation *)

\* Goroutines are interchangeable: a request takes the first that rests.
Begins(q) ==
    /\ enq[q] = Resting
    /\ q = CHOOSE x \in Requesters : enq[x] = Resting

\* RecordFiring of a new incident calls InvestigateAsync.
Fires(q, n, i) ==
    /\ Begins(q)
    /\ n \in alive
    /\ i \notin raised
    /\ raised' = raised \cup {i}
    /\ enq' = [enq EXCEPT ![q] = [Resting EXCEPT !.pc = "gate", !.node = n, !.inc = i]]
    /\ UNCHANGED <<forces, report, ids, inv, guards, alive, replaced, unwritten, invFaults>>

\* An incident fires at a manager that has no investigator wired.
FiresUnwired(i) ==
    /\ i \notin raised
    /\ InvFault
    /\ raised' = raised \cup {i}
    /\ UNCHANGED <<forces, report, ids, enq, inv, guards, alive, replaced, unwritten>>

\* ForceEnqueueWith reads the report there is, and the worker it names.
ForceTrigger(q, n, i) ==
    /\ Begins(q)
    /\ n \in alive
    /\ i \in raised
    /\ forces < MaxForces
    /\ forces' = forces + 1
    /\ enq' = [enq EXCEPT ![q] = [Resting EXCEPT !.pc = "stop", !.node = n, !.inc = i,
                                                 !.prior = report[i].worker]]
    /\ UNCHANGED <<raised, report, ids, inv, guards, alive, replaced, unwritten, invFaults>>

\* Variant: rows that are still pending are not healed.
Healed_Running(row) ==
    IF row.status = "running" THEN [row EXCEPT !.status = "failed"] ELSE row

\* Variant: every row of an earlier process is failed.
Healed_All(row) ==
    IF row # NoRow THEN [row EXCEPT !.status = "failed"] ELSE row

\* FailOrphaned: a row that has not come to its end is failed, whoever's it is.
Healed(row) ==
    IF row.status \in Open THEN [row EXCEPT !.status = "failed"] ELSE row

\* A manager starts again, with FailOrphaned; one that fails is logged.
Starts(q, n) ==
    /\ n \notin alive
    /\ Begins(q)
    /\ alive' = alive \cup {n}
    /\ \/ /\ report' = [i \in IncidentIDs |-> Healed(report[i])]
          /\ UNCHANGED <<unwritten, invFaults>>
       \/ /\ InvFault
          /\ unwritten' = unwritten \cup {r \in Reports : \E i \in IncidentIDs :
                                   report[i].id = r /\ report[i].status \in Open}
          /\ UNCHANGED report
    /\ enq' = [enq EXCEPT ![q] = [Resting EXCEPT !.pc = "list", !.node = n]]
    /\ UNCHANGED <<raised, forces, ids, inv, guards, replaced>>

\* BackfillUnstartedIncidents lists the incidents that have no report.
ListUnstarted(q) ==
    /\ enq[q].pc = "list"
    /\ enq' = [enq EXCEPT ![q].pc = "next", ![q].todo = {i \in raised : report[i] = NoRow}]
    /\ UNCHANGED <<raised, forces, report, ids, inv, guards, alive, replaced, unwritten, invFaults>>

\* The next incident of the list is enqueued, or is skipped because it was
\* resolved or could not be loaded.
Backfill(q, i, skip) ==
    /\ enq[q].pc = "next"
    /\ i \in enq[q].todo
    /\ enq' = [enq EXCEPT ![q].todo = @ \ {i}, ![q].pc = IF skip THEN "next" ELSE "gate",
                          ![q].inc = IF skip THEN NoReport ELSE i]
    /\ UNCHANGED <<raised, forces, report, ids, inv, guards, alive, replaced, unwritten, invFaults>>

BackfillEnds(q) ==
    /\ enq[q].pc = "next"
    /\ enq[q].todo = {}
    /\ enq' = [enq EXCEPT ![q] = Resting]
    /\ UNCHANGED <<raised, forces, report, ids, inv, guards, alive, replaced, unwritten, invFaults>>

\* Enqueue has returned; a backfill goes on with its list.
Returned(q) ==
    IF enq[q].todo = {} THEN Resting
                        ELSE [enq[q] EXCEPT !.pc = "next", !.inc = NoReport]

-----------------------------------------------------------------------------
(* ForceEnqueueWith *)

\* StopWorker: a worker of this process that still works is cancelled.
StopPrior(q) ==
    LET r == enq[q].prior
    IN /\ enq[q].pc = "stop"
       /\ enq' = [enq EXCEPT ![q].pc = "delete", ![q].prior = NoReport]
       /\ inv' = IF r \in Reports /\ inv[r].pc = "work" /\ inv[r].node = enq[q].node
                   THEN [inv EXCEPT ![r].pc = "attach", ![r].ok = FALSE] ELSE inv
       /\ UNCHANGED <<raised, forces, report, ids, guards, alive, replaced, unwritten, invFaults>>

\* DeleteByIncident, and the guard of this process is released.
DeletePrior(q) ==
    LET i == enq[q].inc
    IN /\ enq[q].pc = "delete"
       /\ report' = [report EXCEPT ![i] = NoRow]
       /\ replaced' = IF report[i] = NoRow
                         THEN replaced ELSE [replaced EXCEPT ![i] = @ \cup {report[i].id}]
       /\ enq' = [enq EXCEPT ![q].pc = "unguard"]
       /\ UNCHANGED <<raised, forces, ids, inv, guards, alive, unwritten, invFaults>>

DeletePriorFails(q) ==
    /\ enq[q].pc = "delete"
    /\ InvFault
    /\ enq' = [enq EXCEPT ![q] = Resting]
    /\ UNCHANGED <<raised, forces, report, ids, inv, guards, alive, replaced, unwritten>>

Unguard(q) ==
    /\ enq[q].pc = "unguard"
    /\ inflight' = [inflight EXCEPT ![enq[q].node] = @ \ {enq[q].inc}]
    /\ enq' = [enq EXCEPT ![q].pc = "gate"]
    /\ UNCHANGED <<raised, forces, report, ids, inv, sem, alive, replaced, unwritten, invFaults>>

-----------------------------------------------------------------------------
(* EnqueueWith *)

\* Gate 2: an incident that is in flight in this process is left to that call.
Gate(q) ==
    LET n == enq[q].node
        i == enq[q].inc
    IN /\ enq[q].pc = "gate"
       /\ IF i \in inflight[n]
            THEN enq' = [enq EXCEPT ![q] = Returned(q)] /\ UNCHANGED inflight
            ELSE /\ enq' = [enq EXCEPT ![q].pc = "permit"]
                 /\ inflight' = [inflight EXCEPT ![n] = @ \cup {i}]
       /\ UNCHANGED <<raised, forces, report, ids, inv, sem, alive, replaced, unwritten, invFaults>>

\* Gate 3: a permit of the semaphore; without one the incident is skipped.
Permit(q) ==
    LET n == enq[q].node
    IN /\ enq[q].pc = "permit"
       /\ IF sem[n] < MaxConcurrent
            THEN /\ sem' = [sem EXCEPT ![n] = @ + 1]
                 /\ enq' = [enq EXCEPT ![q].pc = "create"]
                 /\ UNCHANGED inflight
            ELSE /\ inflight' = [inflight EXCEPT ![n] = @ \ {enq[q].inc}]
                 /\ enq' = [enq EXCEPT ![q].pc = "skip"]
                 /\ UNCHANGED sem
       /\ UNCHANGED <<raised, forces, report, ids, inv, alive, replaced, unwritten, invFaults>>

\* The row that an insert writes.
NewRow(status) == [NoRow EXCEPT !.id = ids + 1, !.status = status]

\* The skipped row is created; an error, a row that exists among them, is logged.
CreateSkipped(q) ==
    LET i == enq[q].inc
    IN /\ enq[q].pc = "skip"
       /\ \/ /\ report[i] = NoRow
             /\ report' = [report EXCEPT ![i] = NewRow("skipped")]
             /\ ids' = ids + 1
             /\ UNCHANGED invFaults
          \/ /\ (report[i] # NoRow /\ UNCHANGED invFaults) \/ InvFault
             /\ UNCHANGED <<report, ids>>
       /\ enq' = [enq EXCEPT ![q] = Returned(q)]
       /\ UNCHANGED <<raised, forces, inv, guards, alive, replaced, unwritten>>

\* The investigation of report r begins at node n.
Begun(r, n, i) == [inv EXCEPT ![r] = [pc |-> "work", node |-> n, inc |-> i, ok |-> FALSE]]

\* Variant: a row that exists is no obstacle.
CreatePending_NoIndex(q) ==
    LET n == enq[q].node
        i == enq[q].inc
    IN /\ enq[q].pc = "create"
       /\ ids + 1 \in Reports
       /\ report' = [report EXCEPT ![i] = NewRow("pending")]
       /\ ids' = ids + 1
       /\ inv' = Begun(ids + 1, n, i)
       /\ enq' = [enq EXCEPT ![q] = Returned(q)]
       /\ UNCHANGED <<raised, forces, guards, alive, replaced, unwritten, invFaults>>

\* The pending row is created and the investigation begins.
CreatePending(q) ==
    LET n == enq[q].node
        i == enq[q].inc
    IN /\ enq[q].pc = "create"
       /\ report[i] = NoRow
       /\ report' = [report EXCEPT ![i] = NewRow("pending")]
       /\ ids' = ids + 1
       /\ inv' = Begun(ids + 1, n, i)
       /\ enq' = [enq EXCEPT ![q] = Returned(q)]
       /\ UNCHANGED <<raised, forces, guards, alive, replaced, unwritten, invFaults>>

\* Variant: the permit is not given back.
CreateFails_Leak(q) ==
    LET n == enq[q].node
        i == enq[q].inc
    IN /\ enq[q].pc = "create"
       /\ (report[i] # NoRow /\ UNCHANGED invFaults) \/ InvFault
       /\ inflight' = [inflight EXCEPT ![n] = @ \ {i}]
       /\ enq' = [enq EXCEPT ![q] = Returned(q)]
       /\ UNCHANGED <<raised, forces, report, ids, inv, sem, alive, replaced, unwritten>>

\* The insert fails, or the incident has a row: permit and guard are released.
CreateFails(q) ==
    LET n == enq[q].node
        i == enq[q].inc
    IN /\ enq[q].pc = "create"
       /\ (report[i] # NoRow /\ UNCHANGED invFaults) \/ InvFault
       /\ sem' = [sem EXCEPT ![n] = @ - 1]
       /\ inflight' = [inflight EXCEPT ![n] = @ \ {i}]
       /\ enq' = [enq EXCEPT ![q] = Returned(q)]
       /\ UNCHANGED <<raised, forces, report, ids, inv, alive, replaced, unwritten>>

EnqueueStep(q) ==
    \/ \E i \in enq[q].todo, skip \in BOOLEAN : Backfill(q, i, skip)
    \/ ListUnstarted(q) \/ BackfillEnds(q)
    \/ StopPrior(q) \/ DeletePrior(q) \/ DeletePriorFails(q) \/ Unguard(q)
    \/ Gate(q) \/ Permit(q)
    \/ CreateSkipped(q) \/ CreatePending(q) \/ CreateFails(q)

-----------------------------------------------------------------------------
(* run: the goroutine of one investigation *)

\* The worker ends: with an answer, a salvaged one included, or without.
WorkerEnds(r, ok) ==
    /\ inv[r].pc = "work"
    /\ inv' = [inv EXCEPT ![r].pc = "attach", ![r].ok = ok]
    /\ UNCHANGED <<raised, forces, report, ids, enq, guards, alive, replaced, unwritten, invFaults>>

\* No worker is spawned.
SpawnRefused(r) ==
    /\ inv[r].pc = "work"
    /\ InvFault
    /\ inv' = [inv EXCEPT ![r].pc = "write"]
    /\ UNCHANGED <<raised, forces, report, ids, enq, guards, alive, replaced, unwritten>>

\* Variant: the row is found by its incident.
Target_Incident(r) == {i \in IncidentIDs : i = inv[r].inc /\ report[i] # NoRow}

\* The row a statement "WHERE id = r" finds, if it is still there.
Target(r) == {i \in IncidentIDs : report[i].id = r}

\* AttachWorker: its error is logged, whatever it is.
AttachWorker(r) ==
    /\ inv[r].pc = "attach"
    /\ \/ /\ report' = [i \in IncidentIDs |->
                          IF i \in Target(r)
                            THEN [report[i] EXCEPT !.status = "running", !.worker = r]
                            ELSE report[i]]
          /\ UNCHANGED invFaults
       \/ InvFault /\ UNCHANGED report
    /\ inv' = [inv EXCEPT ![r].pc = "write"]
    /\ UNCHANGED <<raised, forces, ids, enq, guards, alive, replaced, unwritten>>

\* MarkReady or UpdateStatus: the outcome is written, or the error is dropped.
WriteOutcome(r) ==
    /\ inv[r].pc = "write"
    /\ \/ /\ report' = [i \in IncidentIDs |->
                          IF i \in Target(r)
                            THEN [report[i] EXCEPT
                                    !.status = IF inv[r].ok THEN "ready" ELSE "failed",
                                    !.by = IF inv[r].ok THEN r ELSE @]
                            ELSE report[i]]
          /\ UNCHANGED <<unwritten, invFaults>>
       \/ InvFault /\ unwritten' = unwritten \cup {r} /\ UNCHANGED report
    /\ inv' = [inv EXCEPT ![r].pc = "defer"]
    /\ UNCHANGED <<raised, forces, ids, enq, guards, alive, replaced>>

\* The deferred function releases the guard and the permit.
RunEnds(r) ==
    LET n == inv[r].node
    IN /\ inv[r].pc = "defer"
       /\ inflight' = [inflight EXCEPT ![n] = @ \ {inv[r].inc}]
       /\ sem' = [sem EXCEPT ![n] = @ - 1]
       /\ inv' = [inv EXCEPT ![r] = Absent]
       /\ UNCHANGED <<raised, forces, report, ids, enq, alive, replaced, unwritten, invFaults>>

RunStep(r) ==
    \/ \E ok \in BOOLEAN : WorkerEnds(r, ok)
    \/ SpawnRefused(r) \/ AttachWorker(r) \/ WriteOutcome(r) \/ RunEnds(r)

\* A manager dies: its goroutines and its guards are gone.
NodeDies(n) ==
    /\ n \in alive
    /\ InvFault
    /\ alive' = alive \ {n}
    /\ enq' = [q \in Requesters |-> IF enq[q].node = n THEN Resting ELSE enq[q]]
    /\ inv' = [r \in Reports |-> IF inv[r].node = n THEN Absent ELSE inv[r]]
    /\ inflight' = [inflight EXCEPT ![n] = {}]
    /\ sem' = [sem EXCEPT ![n] = 0]
    /\ UNCHANGED <<raised, forces, report, ids, replaced, unwritten>>

InvProceeds ==
    \/ \E q \in Requesters : EnqueueStep(q)
    \/ \E r \in Reports : RunStep(r)
    \/ \E q \in Requesters, n \in Nodes : Starts(q, n)

InvNext ==
    \/ InvProceeds
    \/ \E q \in Requesters, n \in Nodes, i \in IncidentIDs : Fires(q, n, i) \/ ForceTrigger(q, n, i)
    \/ \E i \in IncidentIDs : FiresUnwired(i)
    \/ \E n \in Nodes : NodeDies(n)

InvSpec == InvInit /\ [][InvNext]_invVars

\* Goroutines run on, a worker ends by its timeout at the latest, and a manager
\* that died is started again.
InvFairSpec == InvSpec /\ WF_invVars(InvProceeds)

-----------------------------------------------------------------------------
(* Properties *)

LiveRuns(i) == {r \in Reports : inv[r] # Absent /\ inv[r].inc = i}

\* Every permit that is taken is held by an investigation that runs or by a call
\* that creates its row: none leaks, whatever path ends it, so that the cap on
\* concurrent workers is met and never shrinks.
PermitsPaired ==
    \A n \in Nodes :
        sem[n] = Cardinality({r \in Reports : inv[r] # Absent /\ inv[r].node = n})
                 + Cardinality({q \in Requesters : enq[q].pc = "create" /\ enq[q].node = n})

\* An incident is investigated once at a time, over all managers, restarts and
\* backfills: each goroutine that investigates it does so for the report there is,
\* or for one that a manual trigger deleted.
OneInvestigation == \A i \in IncidentIDs : LiveRuns(i) \subseteq {report[i].id} \cup replaced[i]

\* A report that is ready holds the answer of its own investigation: the late
\* writes of one that was replaced reach no other report.
AnswerOfItsRun == \A i \in IncidentIDs : report[i].status = "ready" => report[i].by = report[i].id

\* A report that is ready stays so until a manual trigger deletes it; no restart
\* of a manager and no slower goroutine takes it back.
ReadyStays ==
    [][\A i \in IncidentIDs :
          report[i].status = "ready" /\ report'[i].id = report[i].id =>
              report'[i].status = "ready"]_invVars

\* A report does not stay pending or running for ever, crashes included, unless
\* the statement that was to end it failed.
ReportSettles ==
    <>[](\A i \in IncidentIDs : report[i].status \in Open => report[i].id \in unwritten)
=============================================================================
