------------------------------- MODULE TeamCLI -------------------------------
(***************************************************************************)
(* The agentteams-state commands that take several steps on the ledger,    *)
(* and the opskeeper-hitl-monitor.sh daemon that runs expire-hitl in a     *)
(* loop.  Each command is a process of its own: between two ledger         *)
(* operations it holds no lock, so commands of other processes interleave. *)
(*                                                                         *)
(*   expire-hitl       DueHITL; RecordHITL for each; PendingEscalations;   *)
(*                     deliver each                                        *)
(*   retry-escalation  PendingEscalations; deliver each                    *)
(*   hitl              RecordHITL of a timeout; post; CompleteEscalation   *)
(*                                                                         *)
(* The single-operation commands (init, advance, start-hitl and hitl with  *)
(* an admin's decision) are the actions of TeamLedger.                     *)
(***************************************************************************)
EXTENDS TeamLedger

CONSTANTS
    Monitor,        \* the process of opskeeper-hitl-monitor.sh
    Operators,      \* processes that run retry-escalation and hitl
    HitlFlags,      \* wrong ids passed to hitl as --approval-request-id
    Timeout,        \* --timeout of expire-hitl
    MaxCrashes      \* bound on the processes killed half-way

ASSUME CLIAssumption ==
    /\ Monitor \notin Operators
    /\ HitlFlags \subseteq Requests \cup {NoRequest}
    /\ Timeout \in Nat \ {0}
    /\ MaxCrashes \in Nat

VARIABLES
    proc,           \* the local state of each process
    posted,         \* the escalations the webhook has received
    crashes

cliVars == <<tracked, task, clock, proc, posted, crashes>>

Procs == Operators \cup {Monitor}

\* What a webhook notification names: the task and its approval request.
Notice == [task : TaskIDs, request : Requests \cup {NoRequest}]

\* due and pend are the snapshots the command still has to work through;
\* ok is the outcome of the last post, failed whether any delivery failed.
Local == [pc : {"idle", "record", "list", "post", "complete", "stopped"},
          due : SUBSET (TaskIDs \X (0..MaxClock)), pend : SUBSET Notice,
          item : Notice \cup {<<>>}, ok : BOOLEAN, failed : BOOLEAN]

AtRest(pc) == [pc |-> pc, due |-> {}, pend |-> {}, item |-> <<>>, ok |-> FALSE, failed |-> FALSE]

-----------------------------------------------------------------------------
(* The two queries of the ledger *)

Overdue(t) ==
    /\ task[t].phases["hitl_approval"] = "in_progress"
    /\ task[t].started # NoTime
    /\ task[t].started <= clock - Timeout

\* DueHITL: the overdue approvals with their start, the sort key.
DueHITL == {<<t, task[t].started>> : t \in {u \in tracked : Overdue(u)}}

Undelivered(t) == task[t].escalation.status \in {"pending", "failed"}

\* Variant: only the escalations nobody has tried yet are listed.
PendingEscalations_Untried ==
    {[task |-> t, request |-> task[t].escalation.request] :
       t \in {u \in tracked : task[u].escalation.status = "pending"}}

\* Variant: the approval's current request is named instead of the escalated one.
PendingEscalations_Current ==
    {[task |-> t, request |-> task[t].request] : t \in {u \in tracked : Undelivered(u)}}

PendingEscalations ==
    {[task |-> t, request |-> task[t].escalation.request] :
       t \in {u \in tracked : Undelivered(u)}}

-----------------------------------------------------------------------------
(* Command steps *)

CLIInit ==
    /\ Init
    /\ proc = [p \in Procs |-> AtRest(IF p = Monitor THEN "stopped" ELSE "idle")]
    /\ posted = {}
    /\ crashes = 0

\* The single-operation commands of other callers.
LedgerCommand ==
    /\ \/ \E t \in TaskIDs, i \in Incidents, r \in Rooms : Initialize(t, i, r)
       \/ \E t \in TaskIDs, x \in AdvanceArgs : Advance(t, x[1], x[2])
       \/ \E t \in TaskIDs, a \in Admins, r \in Requests : StartHITL(t, a, r)
       \/ \E t \in TaskIDs, a \in Admins, r \in Requests, d \in {"approved", "rejected"} :
            RecordHITL(t, a, d, r)
    /\ UNCHANGED <<proc, posted, crashes>>

\* A finished command: the monitor's loop ends with exit 1 on any failure and
\* otherwise sleeps until the next iteration.
Ended(p, failed) == AtRest(IF p = Monitor /\ failed THEN "stopped" ELSE "idle")

\* The monitor script is started, once more after it has stopped.
MonitorStart ==
    /\ proc[Monitor].pc = "stopped"
    /\ proc' = [proc EXCEPT ![Monitor] = AtRest("idle")]
    /\ UNCHANGED <<tracked, task, clock, posted, crashes>>

\* expire-hitl: DueHITL.
ExpireBegin ==
    /\ proc[Monitor].pc = "idle"
    /\ proc' = [proc EXCEPT ![Monitor].pc = "record", ![Monitor].due = DueHITL]
    /\ UNCHANGED <<tracked, task, clock, posted, crashes>>

\* Variant: an approval that can no longer be expired is tried again.
ExpireRecord_Retry ==
    /\ proc[Monitor].pc = "record"
    /\ \E x \in proc[Monitor].due :
         /\ \A y \in proc[Monitor].due : x[2] <= y[2]
         /\ RecordHITL(x[1], TimeoutActor, "timeout_escalated", NoRequest)
         /\ proc' = [proc EXCEPT ![Monitor].due = @ \ {x}]
    /\ UNCHANGED <<posted, crashes>>

\* expire-hitl: RecordHITL for the earliest approval of the snapshot; an
\* error ends the whole command.
ExpireRecord ==
    /\ proc[Monitor].pc = "record"
    /\ \E x \in proc[Monitor].due :
         /\ \A y \in proc[Monitor].due : x[2] <= y[2]
         /\ \/ /\ RecordHITL(x[1], TimeoutActor, "timeout_escalated", NoRequest)
               /\ proc' = [proc EXCEPT ![Monitor].due = @ \ {x}]
            \/ /\ task[x[1]].phases["hitl_approval"] # "in_progress"
               /\ proc' = [proc EXCEPT ![Monitor] = Ended(Monitor, TRUE)]
               /\ UNCHANGED <<tracked, task, clock>>
    /\ UNCHANGED <<posted, crashes>>

ExpireRecorded ==
    /\ proc[Monitor].pc = "record"
    /\ proc[Monitor].due = {}
    /\ proc' = [proc EXCEPT ![Monitor].pc = "list"]
    /\ UNCHANGED <<tracked, task, clock, posted, crashes>>

RetryBegin(p) ==
    /\ p \in Operators
    /\ proc[p].pc = "idle"
    /\ proc' = [proc EXCEPT ![p].pc = "list"]
    /\ UNCHANGED <<tracked, task, clock, posted, crashes>>

\* expire-hitl and retry-escalation: PendingEscalations.
ListPending(p) ==
    /\ proc[p].pc = "list"
    /\ proc' = [proc EXCEPT ![p].pc = "post", ![p].pend = PendingEscalations]
    /\ UNCHANGED <<tracked, task, clock, posted, crashes>>

\* hitl --decision timeout_escalated by an operator: the ledger records the
\* outstanding request, the notification names the id r of the flag.
HITLTimeout(p, t, r) ==
    /\ p \in Operators
    /\ proc[p].pc = "idle"
    /\ RecordHITL(t, TimeoutActor, "timeout_escalated", r)
    /\ proc' = [proc EXCEPT ![p].pc = "post", ![p].pend = {[task |-> t, request |-> r]}]
    /\ UNCHANGED <<posted, crashes>>

\* postHook: a reported success was received; a reported failure may have
\* been received too (the answer was lost or late).
PostHook(p, x, received, ok) ==
    /\ proc[p].pc = "post"
    /\ x \in proc[p].pend
    /\ ok => received
    /\ posted' = IF received THEN posted \cup {x} ELSE posted
    /\ proc' = [proc EXCEPT ![p].pc = "complete", ![p].item = x, ![p].ok = ok,
                            ![p].pend = @ \ {x}]
    /\ UNCHANGED <<tracked, task, clock, crashes>>

\* Variant: the outcome of the post is not passed on.
Complete_IgnoreOutcome(p) ==
    /\ proc[p].pc = "complete"
    /\ CompleteEscalation(proc[p].item.task, TRUE)
    /\ proc' = [proc EXCEPT ![p].pc = "post", ![p].item = <<>>, ![p].ok = FALSE]
    /\ UNCHANGED <<posted, crashes>>

\* deliverEscalations and cmdHITL: CompleteEscalation with the post's outcome.
Complete(p) ==
    /\ proc[p].pc = "complete"
    /\ CompleteEscalation(proc[p].item.task, proc[p].ok)
    /\ proc' = [proc EXCEPT ![p].pc = "post", ![p].item = <<>>, ![p].ok = FALSE,
                            ![p].failed = @ \/ ~proc[p].ok]
    /\ UNCHANGED <<posted, crashes>>

Finish(p) ==
    /\ proc[p].pc = "post"
    /\ proc[p].pend = {}
    /\ proc' = [proc EXCEPT ![p] = Ended(p, proc[p].failed)]
    /\ UNCHANGED <<tracked, task, clock, posted, crashes>>

\* A process is killed between two of its steps; what it did stays.
Crash(p) ==
    /\ crashes < MaxCrashes
    /\ proc[p].pc \notin {"idle", "stopped"}
    /\ crashes' = crashes + 1
    /\ proc' = [proc EXCEPT ![p] = Ended(p, TRUE)]
    /\ UNCHANGED <<tracked, task, clock, posted>>

CLITick == Tick /\ UNCHANGED <<proc, posted, crashes>>

MonitorStep ==
    \/ ExpireBegin \/ ExpireRecord \/ ExpireRecorded
    \/ ListPending(Monitor) \/ Complete(Monitor) \/ Finish(Monitor)
    \/ \E x \in proc[Monitor].pend, received, ok \in BOOLEAN : PostHook(Monitor, x, received, ok)

CLINext ==
    \/ LedgerCommand
    \/ CLITick
    \/ MonitorStart
    \/ MonitorStep
    \/ \E p \in Operators :
         \/ RetryBegin(p) \/ ListPending(p) \/ Complete(p) \/ Finish(p)
         \/ \E t \in TaskIDs : \E r \in HitlFlags \cup {task[t].request} : HITLTimeout(p, t, r)
         \/ \E x \in proc[p].pend, received, ok \in BOOLEAN : PostHook(p, x, received, ok)
    \/ \E p \in Procs : Crash(p)

CLISpec == CLIInit /\ [][CLINext]_cliVars

\* The monitor keeps running its steps and is started again after it stopped;
\* the webhook accepts at last a notification that is posted again and again.
CLIFairSpec ==
    /\ CLISpec
    /\ WF_cliVars(MonitorStep)
    /\ WF_cliVars(MonitorStart)
    /\ WF_cliVars(CLITick)
    /\ \A x \in Notice : SF_cliVars(PostHook(Monitor, x, TRUE, TRUE))

-----------------------------------------------------------------------------
(* Properties *)

\* Every notification the webhook received names an approval request that the
\* ledger records as timed out: nobody is paged for a request that was
\* approved or rejected in time.
PostedOnRecord ==
    \A x \in posted :
        /\ x.task \in tracked
        /\ \E n \in 1..Len(task[x.task].decisions) :
             /\ task[x.task].decisions[n].decision = "timeout_escalated"
             /\ task[x.task].decisions[n].request = x.request

\* An escalation marked delivered was received by the webhook, for the request
\* it is about (README of the monitor: timed-out requests are recorded and
\* posted to the webhook).
DeliveredWasPosted ==
    \A t \in tracked :
        task[t].escalation.status = "delivered" =>
            [task |-> t, request |-> task[t].escalation.request] \in posted

\* Recording a decision is within the bound on decisions.
UnderCap(t) == Len(task[t].decisions) < MaxDecisions

\* The timed-out approval of a crashed, raced or failed pass is not forgotten:
\* once undelivered, an escalation is delivered at some later point.
EscalationDelivered ==
    \A t \in TaskIDs : (t \in tracked /\ Undelivered(t)) ~> task[t].escalation.status = "delivered"

\* An approval that has waited longer than the timeout does not wait for ever.
OverdueIsDecided ==
    \A t \in TaskIDs : (t \in tracked /\ Overdue(t) /\ UnderCap(t)) ~> ~Overdue(t)
=============================================================================
