-------------------------- MODULE RecoveryExecution --------------------------
(***************************************************************************)
(* The recovery.execute tool over the proposal table: an executor reserves *)
(* an approved proposal (approved -> executing, with a lease), dispatches  *)
(* the mutation, and completes the proposal.  The reads and the updates of *)
(* data/hitl/store/recovery_audit.go are separate statements; executors,   *)
(* the callers of HitlProposals and the sweep of expired leases interleave *)
(* between them, an executor's process can die at any point, and any of    *)
(* its statements can fail: they run under the request's context, so that  *)
(* a request that is cancelled fails them too.                             *)
(*                                                                         *)
(* A gated executor must reserve.  A drill (skip_audit) dispatches without *)
(* a reservation, and completes the proposal it names all the same.        *)
(***************************************************************************)
EXTENDS HitlProposals, Sequences

CONSTANTS
    Executors,      \* concurrent runs of the tool
    Drills,         \* those called with skip_audit
    Lease,          \* recoveryExecutionLeaseDuration, in ticks
    MaxExecFaults   \* bound on crashes of executors and failed statements

ASSUME RecoveryAssumption ==
    /\ Drills \subseteq Executors
    /\ Lease \in Nat \ {0}
    /\ MaxExecFaults \in Nat

VARIABLES
    exec,           \* what each executor is doing
    effects,        \* history: the gated mutations, in the order of dispatch
    lost,           \* history: proposals whose executor died holding them, or
                    \* ended with an error of its reservation or completion
    execFaults

recoveryVars == <<row, token, call, told, clock, exec, effects, lost, execFaults>>

Exec == [pc : {"idle", "reserve", "dispatch", "complete", "update"},
         id : Proposals, payload : Payloads, now : 0..MaxClock, ok : BOOLEAN,
         to : {"executed", "failed"}]

Effect == [id : Proposals, by : Executors, payload : Payloads, now : 0..MaxClock, ok : BOOLEAN]

Gated(x) == x \notin Drills

AtRestExec(k) == [k EXCEPT !.pc = "idle"]

-----------------------------------------------------------------------------

RecoveryInit ==
    /\ Init
    /\ exec \in [Executors ->
                   {[pc |-> "idle", id |-> CHOOSE p \in Proposals : TRUE,
                     payload |-> CHOOSE y \in Payloads : TRUE, now |-> 0, ok |-> FALSE,
                     to |-> "failed"]}]
    /\ effects = << >>
    /\ lost = {}
    /\ execFaults = 0

\* Variant: the approval's expiry is not looked at.
Reservable_Expired(p, y) ==
    /\ row[p].state = "approved"
    /\ row[p].payload = y

Reservable(p, y) ==
    /\ row[p].state = "approved"
    /\ row[p].expires > clock
    /\ row[p].payload = y

\* The checks of ReserveApprovedForRecovery, on the row as it is read now.
ReserveGet(x, p, y) ==
    /\ Gated(x)
    /\ exec[x].pc = "idle"
    /\ Reservable(p, y)
    /\ exec' = [exec EXCEPT ![x] = [@ EXCEPT !.pc = "reserve", !.id = p, !.payload = y,
                                             !.now = clock]]
    /\ UNCHANGED <<row, token, call, told, clock, effects, lost, execFaults>>

ReservedRow(p, now) == [row[p] EXCEPT !.lease = now + Lease]

\* Its UPDATE; only the winner goes on.
ReserveUpdate(x) ==
    LET k == exec[x] IN
    /\ k.pc = "reserve"
    /\ \/ /\ Transition(k.id, "approved", "executing", ReservedRow(k.id, k.now))
          /\ exec' = [exec EXCEPT ![x].pc = "dispatch"]
       \/ /\ TransitionFails(k.id, "approved", "executing")
          /\ exec' = [exec EXCEPT ![x] = AtRestExec(@)]
          /\ UNCHANGED row
    /\ UNCHANGED <<token, call, told, clock, effects, lost, execFaults>>

ExecFault ==
    /\ execFaults < MaxExecFaults
    /\ execFaults' = execFaults + 1

\* The UPDATE errs, made or not: the tool returns without a dispatch.
ReserveErrs(x) ==
    LET k == exec[x] IN
    /\ k.pc = "reserve"
    /\ ExecFault
    /\ \/ UNCHANGED <<row, lost>>
       \/ /\ Transition(k.id, "approved", "executing", ReservedRow(k.id, k.now))
          /\ lost' = lost \cup {k.id}
    /\ exec' = [exec EXCEPT ![x] = AtRestExec(@)]
    /\ UNCHANGED <<token, call, told, clock, effects>>

\* A drill that names a proposal goes to the dispatch at once.
DrillStart(x, p, y) ==
    /\ ~Gated(x)
    /\ exec[x].pc = "idle"
    /\ exec' = [exec EXCEPT ![x] = [@ EXCEPT !.pc = "dispatch", !.id = p, !.payload = y,
                                             !.now = clock]]
    /\ UNCHANGED <<row, token, call, told, clock, effects, lost, execFaults>>

\* The mutation: terminate, recover the pool or restart the service.  A call
\* that fails may have acted.
Dispatch(x, ok) ==
    LET k == exec[x] IN
    /\ k.pc = "dispatch"
    /\ exec' = [exec EXCEPT ![x] = [@ EXCEPT !.pc = "complete", !.ok = ok]]
    /\ effects' = IF Gated(x)
                  THEN Append(effects, [id |-> k.id, by |-> x, payload |-> k.payload,
                                        now |-> k.now, ok |-> ok])
                  ELSE effects
    /\ UNCHANGED <<row, token, call, told, clock, lost, execFaults>>

executionLeaseExpired(p) == row[p].lease # NoTime /\ row[p].lease <= clock

\* Variant: a late success is reported as one.
Outcome_NoLease(p, ok) == IF ok THEN "executed" ELSE "failed"

Outcome(p, ok) == IF ok /\ ~executionLeaseExpired(p) THEN "executed" ELSE "failed"

\* CompleteRecoveryExecution, the read: a success past the lease is a failure.
CompletionGet(x) ==
    LET k == exec[x] IN
    /\ k.pc = "complete"
    /\ row[k.id].state # "absent"
    /\ exec' = [exec EXCEPT ![x] = [@ EXCEPT !.pc = "update", !.now = clock,
                                             !.to = Outcome(k.id, k.ok)]]
    /\ UNCHANGED <<row, token, call, told, clock, effects, lost, execFaults>>

\* A proposal that is not there ends the tool with an error.
CompletionMissing(x) ==
    /\ exec[x].pc = "complete"
    /\ row[exec[x].id].state = "absent"
    /\ exec' = [exec EXCEPT ![x] = AtRestExec(@)]
    /\ UNCHANGED <<row, token, call, told, clock, effects, lost, execFaults>>

\* Variant: only a success is written back.
CompletionUpdate_OnSuccess(x) ==
    LET k == exec[x] IN
    /\ k.pc = "update"
    /\ \/ k.ok /\ Transition(k.id, "executing", k.to, row[k.id])
       \/ (~k.ok \/ TransitionFails(k.id, "executing", k.to)) /\ UNCHANGED row
    /\ exec' = [exec EXCEPT ![x] = AtRestExec(@)]
    /\ UNCHANGED <<token, call, told, clock, effects, lost, execFaults>>

CompletionUpdate(x) ==
    LET k == exec[x] IN
    /\ k.pc = "update"
    /\ \/ Transition(k.id, "executing", k.to, row[k.id])
       \/ TransitionFails(k.id, "executing", k.to) /\ UNCHANGED row
    /\ exec' = [exec EXCEPT ![x] = AtRestExec(@)]
    /\ UNCHANGED <<token, call, told, clock, effects, lost, execFaults>>

\* The read or the UPDATE of the completion errs: the tool returns the error, and
\* a proposal it holds stays in executing.  (An UPDATE that errs although it was
\* made leaves what CompletionUpdate leaves.)
CompletionErrs(x) ==
    /\ exec[x].pc \in {"complete", "update"}
    /\ ExecFault
    /\ lost' = IF Gated(x) THEN lost \cup {exec[x].id} ELSE lost
    /\ exec' = [exec EXCEPT ![x] = AtRestExec(@)]
    /\ UNCHANGED <<row, token, call, told, clock, effects>>

\* RecoverExpiredRecoveryExecution.  The lease of an executing row never
\* changes, so its read and its UPDATE act as one.
RecoverExpired(p) ==
    /\ executionLeaseExpired(p)
    /\ Transition(p, "executing", "failed", row[p])
    /\ UNCHANGED <<token, call, told, clock, exec, effects, lost, execFaults>>

\* The process of a running executor dies.
ExecutorCrash(x) ==
    /\ exec[x].pc # "idle"
    /\ ExecFault
    /\ lost' = IF Gated(x) /\ exec[x].pc # "reserve" THEN lost \cup {exec[x].id} ELSE lost
    /\ exec' = [exec EXCEPT ![x] = AtRestExec(@)]
    /\ UNCHANGED <<row, token, call, told, clock, effects>>

ExecutorProceeds(x) ==
    \/ ReserveUpdate(x) \/ CompletionGet(x) \/ CompletionMissing(x) \/ CompletionUpdate(x)
    \/ \E ok \in BOOLEAN : Dispatch(x, ok)

ExecutorStep(x) ==
    \/ \E p \in Proposals, y \in Payloads : ReserveGet(x, p, y) \/ DrillStart(x, p, y)
    \/ ExecutorProceeds(x)
    \/ ReserveErrs(x) \/ CompletionErrs(x) \/ ExecutorCrash(x)

RecoveryNext ==
    \/ Next /\ UNCHANGED <<exec, effects, lost, execFaults>>
    \/ \E x \in Executors : ExecutorStep(x)
    \/ \E p \in Proposals : RecoverExpired(p)

RecoverySpec == RecoveryInit /\ [][RecoveryNext]_recoveryVars

\* An executor that is alive goes on: its calls return, with an error perhaps.
RecoveryFairSpec == RecoverySpec /\ \A x \in Executors : WF_recoveryVars(ExecutorProceeds(x))

-----------------------------------------------------------------------------
(* Properties *)

\* The types of the executors' states and of the history of mutations.
RecoveryTypeOK ==
    /\ exec \in [Executors -> Exec]
    /\ effects \in Seq(Effect)
    /\ lost \subseteq Proposals
    /\ execFaults \in 0..MaxExecFaults

\* One approval is good for one mutation: whatever executors race for the
\* proposal, crash and are retried, and whatever the sweep of expired leases
\* does meanwhile, a proposal's mutation is dispatched at most once.
OneMutation ==
    \A i, j \in DOMAIN effects : effects[i].id = effects[j].id => i = j

\* The same of what is about to happen: a reservation is held by one executor
\* and the proposal it holds has no mutation behind it.
OneReservation ==
    \A x \in Executors : (Gated(x) /\ exec[x].pc = "dispatch") =>
        /\ \A i \in DOMAIN effects : effects[i].id # exec[x].id
        /\ \A z \in Executors :
             (Gated(z) /\ exec[z].pc = "dispatch" /\ exec[z].id = exec[x].id) => z = x

\* Every gated mutation was approved by a decision, with the payload that was
\* approved, and reserved by a clock reading before the approval expired.
MutationAuthorised ==
    \A i \in DOMAIN effects :
        LET e == effects[i] IN
        /\ row[e.id].decided = "approved"
        /\ row[e.id].payload = e.payload
        /\ e.now < row[e.id].expires

\* A reserved proposal becomes executed by an executor's completion only: by
\* the one that dispatched its mutation, saw it succeed and read the clock
\* within the lease, or by a drill, whose completion checks none of it.
ExecutedByItsHolder ==
    [][\A p \in Proposals :
         (row[p].state = "executing" /\ row'[p].state = "executed") =>
            \E x \in Executors :
                /\ exec[x].pc = "update" /\ exec[x].id = p
                /\ Gated(x) => /\ exec[x].now < row[p].lease
                               /\ \E i \in DOMAIN effects :
                                    effects[i].id = p /\ effects[i].by = x /\ effects[i].ok]_recoveryVars

\* A reserved proposal does not stay in executing: every exit of the tool after
\* the reservation completes it, those of a failed mutation too, and a drill may
\* have completed it meanwhile.  The exceptions are an executor that died, and one
\* whose own statement failed, with which the tool ends: nothing tries it again.
ReservationSettles ==
    \A p \in Proposals : []<>(row[p].state # "executing" \/ p \in lost)
=============================================================================
