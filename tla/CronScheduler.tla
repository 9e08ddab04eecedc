--------------------------- MODULE CronScheduler ---------------------------
(***************************************************************************)
(* The trigger.cron driver (internal/manager/biz/flow/scheduler.go) and    *)
(* the missed-run scan at boot (internal/manager/biz/scheduler), over the  *)
(* table flow_schedule_next_fire that managers share.  The manager that    *)
(* holds the leader key runs the tick loop; one that lost the key learns   *)
(* of it later, when its context is cancelled.                             *)
(*                                                                         *)
(* A tick is cut at its database calls: the list of enabled flows, then    *)
(* for each flow the critical section on Scheduler.next, the save of the   *)
(* cursor and the trigger of the run, and last the removal of the cursors  *)
(* of flows that are gone.                                                 *)
(***************************************************************************)
EXTENDS Integers

CONSTANTS
    Managers,       \* manager processes
    Flows,          \* flows, with one trigger.cron node each
    Periods,        \* cron specs
    NextAfter(_, _),\* cron.Schedule.Next: spec, time -> next occurrence
    MaxTime,        \* bound on the clock
    MaxEdits,       \* bound on what operators change
    MaxCronFaults   \* bound: crashes, lost keys, failed database calls

Never == -1

Times == 0..MaxTime

\* Next fire times go past the bound of the clock.
Cursors == Int

ASSUME CronAssumption ==
    /\ MaxTime \in Nat /\ MaxEdits \in Nat /\ MaxCronFaults \in Nat
    /\ Flows # {}
    /\ "free" \notin Managers

\* The cron library: the next occurrence is strictly later.
ASSUME NextAssumption ==
    \A p \in Periods, t \in Times : NextAfter(p, t) \in Int /\ NextAfter(p, t) > t

VARIABLES
    now,            \* the clock
    flow,           \* the flows table: [enabled, period]
    cursor,         \* flow_schedule_next_fire.next_fire_at, or Never: no row
    leader,         \* holder of the leader key, or "free"
    mgr,            \* where each manager is
    cancelled,      \* its worker context is cancelled
    missed,         \* what its scan at boot has listed
    next,           \* its Scheduler.next, Never: no entry
    pending,        \* in a tick: enabled flows still to look at
    live,           \* in a tick: the enabled flows
    tickNow,        \* in a tick: its time
    at,             \* in a tick: the flow looked at
    due,            \* in a tick: the occurrence to trigger, or Never
    last,           \* history: the latest run of each flow, [occurrence, when]
    audits,         \* scheduler_missed_run_audit: <<flow, expected>>
    clean,          \* history: none of what Exposed names has happened
    edits, cronFaults

tables   == <<flow, cursor, audits>>
tickVars == <<pending, live, tickNow, at, due>>
cronVars == <<now, tables, leader, mgr, cancelled, missed, next, tickVars, last, clean,
              edits, cronFaults>>

InLoop == {"idle", "scan", "persist", "trigger", "delete"}

MgrPC == {"down", "boot", "standby"} \cup InLoop

AnyFlow == CHOOSE f \in Flows : TRUE

-----------------------------------------------------------------------------

\* Variant: the schedule goes on from the occurrence that was due.
Next_FromCursor(p, t, c) == NextAfter(p, IF c = Never THEN t ELSE c)

\* Variant: the entry stays at the occurrence that was due.
Next_Same(p, t, c) == IF c = Never THEN NextAfter(p, t) ELSE c

\* sched.Next(now), in the place of entry c.
NextFire(p, t, c) == NextAfter(p, t)

CronInit ==
    /\ now = 0
    /\ flow \in [Flows -> [enabled : {TRUE}, period : Periods]]
    /\ cursor = [f \in Flows |-> Never]
    /\ leader = "free"
    /\ mgr = [m \in Managers |-> "down"]
    /\ cancelled = [m \in Managers |-> FALSE]
    /\ missed = [m \in Managers |-> {}]
    /\ next = [m \in Managers |-> [f \in Flows |-> Never]]
    /\ pending = [m \in Managers |-> {}]
    /\ live = [m \in Managers |-> {}]
    /\ tickNow = [m \in Managers |-> 0]
    /\ at = [m \in Managers |-> AnyFlow]
    /\ due = [m \in Managers |-> Never]
    /\ last = [f \in Flows |-> [occurrence |-> Never, when |-> Never]]
    /\ audits = {}
    /\ clean = TRUE
    /\ edits = 0
    /\ cronFaults = 0

CronFault ==
    /\ cronFaults < MaxCronFaults
    /\ cronFaults' = cronFaults + 1

PassTime ==
    /\ now < MaxTime
    /\ now' = now + 1
    /\ UNCHANGED <<tables, leader, mgr, cancelled, missed, next, tickVars, last, clean, edits, cronFaults>>

\* Update and SetEnabled of the flow.
EditFlow(f, e, p) ==
    /\ edits < MaxEdits
    /\ flow[f] # [enabled |-> e, period |-> p]
    /\ flow' = [flow EXCEPT ![f] = [enabled |-> e, period |-> p]]
    /\ edits' = edits + 1
    /\ UNCHANGED <<now, cursor, audits, leader, mgr, cancelled, missed, next, tickVars, last, clean,
                   cronFaults>>

\* ListMissed.
Overdue(c) == c # Never /\ c < now

\* Detector.scan: the list, then the audit rows.
Boot(m) ==
    /\ mgr[m] = "down"
    /\ mgr' = [mgr EXCEPT ![m] = "boot"]
    /\ missed' = [missed EXCEPT ![m] = {<<f, cursor[f]>> : f \in {g \in Flows : Overdue(cursor[g])}}]
    /\ UNCHANGED <<now, tables, leader, cancelled, next, tickVars, last, clean, edits, cronFaults>>

\* A row that cannot be written is only logged.
RecordMissed(m) ==
    /\ mgr[m] = "boot"
    /\ mgr' = [mgr EXCEPT ![m] = "standby"]
    /\ \E written \in SUBSET missed[m] : audits' = audits \cup written
    /\ missed' = [missed EXCEPT ![m] = {}]
    /\ UNCHANGED <<now, flow, cursor, leader, cancelled, next, tickVars, last, clean, edits, cronFaults>>

\* LoadScheduleStates: what is loaded replaces the entries it names.
Loaded(m) == [f \in Flows |-> IF cursor[f] # Never THEN cursor[f] ELSE next[m][f]]

\* A start that is exposed to a second run of an occurrence: another loop has
\* not been told to stop, or an entry is left from an earlier term.
Exposed(m) ==
    \/ \E n \in Managers \ {m} : mgr[n] \in InLoop /\ ~cancelled[n]
    \/ \E f \in Flows : cursor[f] = Never /\ next[m][f] # Never

\* The manager takes the leader key; Scheduler.Start.
Lead(m) ==
    /\ mgr[m] = "standby"
    /\ leader = "free"
    /\ leader' = m
    /\ mgr' = [mgr EXCEPT ![m] = "idle"]
    /\ next' = [next EXCEPT ![m] = Loaded(m)]
    /\ clean' = (clean /\ ~Exposed(m))
    /\ UNCHANGED <<now, tables, cancelled, missed, tickVars, last, edits, cronFaults>>

\* LoadScheduleStates fails, which is only logged: the loop starts on the
\* entries it has.
LoadFails(m) ==
    /\ mgr[m] = "standby"
    /\ leader = "free"
    /\ CronFault
    /\ leader' = m
    /\ mgr' = [mgr EXCEPT ![m] = "idle"]
    /\ clean' = (clean /\ ~Exposed(m) /\ \A f \in Flows : next[m][f] = Never)
    /\ UNCHANGED <<now, tables, cancelled, missed, next, tickVars, last, edits>>

\* The key expires or is released; the manager is told by WorkerCancel.
LoseKey(m) ==
    /\ leader = m
    /\ CronFault
    /\ leader' = "free"
    /\ UNCHANGED <<now, tables, mgr, cancelled, missed, next, tickVars, last, clean, edits>>

\* workerCancel and Scheduler.Stop.
WorkerCancel(m) ==
    /\ mgr[m] \in InLoop
    /\ leader # m
    /\ ~cancelled[m]
    /\ cancelled' = [cancelled EXCEPT ![m] = TRUE]
    /\ UNCHANGED <<now, tables, leader, mgr, missed, next, tickVars, last, clean, edits, cronFaults>>

LoopExits(m) ==
    /\ mgr[m] = "idle"
    /\ cancelled[m]
    /\ mgr' = [mgr EXCEPT ![m] = "standby"]
    /\ cancelled' = [cancelled EXCEPT ![m] = FALSE]
    /\ UNCHANGED <<now, tables, leader, missed, next, tickVars, last, clean, edits, cronFaults>>

\* tick: ListEnabledFlows.
BeginTick(m) ==
    /\ mgr[m] = "idle"
    /\ ~cancelled[m]
    /\ mgr' = [mgr EXCEPT ![m] = "scan"]
    /\ live' = [live EXCEPT ![m] = {f \in Flows : flow[f].enabled}]
    /\ pending' = [pending EXCEPT ![m] = {f \in Flows : flow[f].enabled}]
    /\ tickNow' = [tickNow EXCEPT ![m] = now]
    /\ UNCHANGED <<now, tables, leader, cancelled, missed, next, at, due, last, clean, edits, cronFaults>>

\* Variant: an occurrence is due at its instant, and not after it.
IsDue_AtInstant(c, t) == c = t

\* !now.Before(state.NextFireAt), of an entry that is there.
IsDue(c, t) == c # Never /\ c <= t

\* The critical section on Scheduler.next for one flow: a first sighting arms
\* the entry, an entry that is due goes to the next occurrence.
Visit(m, f) ==
    LET c == next[m][f]
        isDue == IsDue(c, tickNow[m])
    IN
    /\ mgr[m] = "scan"
    /\ f \in pending[m]
    /\ mgr' = [mgr EXCEPT ![m] = "persist"]
    /\ pending' = [pending EXCEPT ![m] = @ \ {f}]
    /\ at' = [at EXCEPT ![m] = f]
    /\ due' = [due EXCEPT ![m] = IF isDue THEN c ELSE Never]
    /\ next' = [next EXCEPT ![m][f] = IF c = Never \/ isDue
                                      THEN NextFire(flow[f].period, tickNow[m], c) ELSE c]
    /\ UNCHANGED <<now, tables, leader, cancelled, missed, live, tickNow, last, clean, edits, cronFaults>>

Goes(m, s) == mgr' = [mgr EXCEPT ![m] = s]

\* persistState, of every entry looked at.
Persist(m) ==
    /\ mgr[m] = "persist"
    /\ ~cancelled[m]
    /\ cursor' = [cursor EXCEPT ![at[m]] = next[m][at[m]]]
    /\ Goes(m, IF due[m] = Never THEN "scan" ELSE "trigger")
    /\ UNCHANGED <<now, flow, audits, leader, cancelled, missed, next, tickVars, last, clean, edits, cronFaults>>

\* Its failure is only logged.  A call on a cancelled context fails.
PersistFails(m) ==
    /\ mgr[m] = "persist"
    /\ \/ cancelled[m] /\ UNCHANGED <<clean, cronFaults>>
       \/ ~cancelled[m] /\ CronFault /\ clean' = FALSE
    /\ Goes(m, IF due[m] = Never THEN "scan" ELSE "trigger")
    /\ UNCHANGED <<now, tables, leader, cancelled, missed, next, tickVars, last, edits>>

\* TriggerEvent: a flow that is disabled by now is skipped.
Trigger(m) ==
    /\ mgr[m] = "trigger"
    /\ ~cancelled[m]
    /\ last' = IF flow[at[m]].enabled
               THEN [last EXCEPT ![at[m]] = [occurrence |-> due[m], when |-> tickNow[m]]]
               ELSE last
    /\ due' = [due EXCEPT ![m] = Never]
    /\ Goes(m, "scan")
    /\ UNCHANGED <<now, tables, leader, cancelled, missed, next, pending, live, tickNow, at, clean,
                   edits, cronFaults>>

\* The run is not started; nothing tries again.
TriggerFails(m) ==
    /\ mgr[m] = "trigger"
    /\ \/ cancelled[m] /\ UNCHANGED cronFaults
       \/ ~cancelled[m] /\ CronFault
    /\ due' = [due EXCEPT ![m] = Never]
    /\ Goes(m, "scan")
    /\ UNCHANGED <<now, tables, leader, cancelled, missed, next, pending, live, tickNow, at, last,
                   clean, edits>>

\* Entries of flows that were not in the list are dropped, here and then in
\* the table.
Forget(m) ==
    /\ mgr[m] = "scan"
    /\ pending[m] = {}
    /\ next' = [next EXCEPT ![m] = [f \in Flows |-> IF f \in live[m] THEN @[f] ELSE Never]]
    /\ Goes(m, "delete")
    /\ UNCHANGED <<now, tables, leader, cancelled, missed, tickVars, last, clean, edits, cronFaults>>

\* The locals of a tick, as they are between two ticks.
TickEnds(m) ==
    /\ live' = [live EXCEPT ![m] = {}]
    /\ pending' = [pending EXCEPT ![m] = {}]
    /\ tickNow' = [tickNow EXCEPT ![m] = 0]
    /\ at' = [at EXCEPT ![m] = AnyFlow]
    /\ due' = [due EXCEPT ![m] = Never]

DeleteStale(m) ==
    /\ mgr[m] = "delete"
    /\ cursor' = IF cancelled[m] THEN cursor
                 ELSE [f \in Flows |-> IF f \in live[m] THEN cursor[f] ELSE Never]
    /\ Goes(m, "idle")
    /\ TickEnds(m)
    /\ UNCHANGED <<now, flow, audits, leader, cancelled, missed, next, last, clean, edits, cronFaults>>

\* DeleteScheduleStatesNotIn fails: the rows stay.
DeleteFails(m) ==
    /\ mgr[m] = "delete"
    /\ ~cancelled[m]
    /\ CronFault
    /\ Goes(m, "idle")
    /\ TickEnds(m)
    /\ UNCHANGED <<now, tables, leader, cancelled, missed, next, last, clean, edits>>

ManagerDies(m) ==
    /\ mgr[m] # "down"
    /\ CronFault
    /\ Goes(m, "down")
    /\ leader' = IF leader = m THEN "free" ELSE leader
    /\ cancelled' = [cancelled EXCEPT ![m] = FALSE]
    /\ missed' = [missed EXCEPT ![m] = {}]
    /\ next' = [next EXCEPT ![m] = [f \in Flows |-> Never]]
    /\ TickEnds(m)
    /\ UNCHANGED <<now, tables, last, clean, edits>>

LoopStep(m) ==
    \/ \E f \in Flows : Visit(m, f)
    \/ Persist(m) \/ Trigger(m) \/ Forget(m) \/ DeleteStale(m) \/ LoopExits(m)
    \/ cancelled[m] /\ (PersistFails(m) \/ TriggerFails(m))

Faults(m) ==
    \/ LoseKey(m) \/ ManagerDies(m) \/ LoadFails(m) \/ PersistFails(m) \/ TriggerFails(m)
    \/ DeleteFails(m)

CronNext ==
    \/ PassTime
    \/ \E f \in Flows, e \in BOOLEAN, p \in Periods : EditFlow(f, e, p)
    \/ \E m \in Managers : \/ Boot(m) \/ RecordMissed(m) \/ Lead(m) \/ WorkerCancel(m) \/ BeginTick(m)
                           \/ LoopStep(m) \/ Faults(m)

CronSpec == CronInit /\ [][CronNext]_cronVars

\* A manager that is down is started again, tries for the free key, ticks, and
\* learns of the loss of its key.
ManagerProceeds(m) ==
    Boot(m) \/ RecordMissed(m) \/ Lead(m) \/ BeginTick(m) \/ LoopStep(m)

CronFairSpec ==
    /\ CronSpec
    /\ \A m \in Managers : WF_cronVars(ManagerProceeds(m)) /\ WF_cronVars(WorkerCancel(m))

-----------------------------------------------------------------------------
(* Properties *)

AboutToTrigger(m) == mgr[m] = "trigger" /\ ~cancelled[m]

\* An occurrence starts one run at most, through crashes, restarts and changes
\* of leader: what a manager is about to trigger is later than all that was
\* run, and no other manager is about to trigger the same flow.  What it rests
\* on is what clean records: no failed save, and no start that is Exposed.
OncePerOccurrence ==
    clean => \A m \in Managers : AboutToTrigger(m) =>
        /\ last[at[m]].occurrence < due[m]
        /\ \A n \in Managers : (AboutToTrigger(n) /\ at[n] = at[m]) => n = m

\* An outage that spans several occurrences is made up by one run: a run is
\* never followed by another one of the same flow from the same instant.
NoBurst ==
    clean => \A m \in Managers : AboutToTrigger(m) => last[at[m]].when < tickNow[m]

\* The table never names an occurrence that has been run, so a scan at boot
\* reports no run that took place and a new leader repeats none.
CursorUnfired ==
    clean => \A f \in Flows : cursor[f] # Never => last[f].occurrence < cursor[f]

\* An occurrence that is due does not stay so: some manager comes to lead, and
\* its loop moves the cursor on, or drops it with the flow.
DueMovesOn ==
    \A f \in Flows : []<>(cursor[f] = Never \/ cursor[f] > now)
=============================================================================
