# Opskeeper: TLA+ models and proofs

Opskeeper is an operations manager written in Go: it takes alerts, has them
diagnosed by agents, asks a human to approve a repair, and runs the repair on a
host. These modules model the parts of it where several actors share state: the
path from an incident's phases, over the human decision, to the one command that
is run; the alert pipeline in front of it; the workflow engine and its cron
triggers; the election that decides which manager runs the background workers;
the chat turns that are spread over replicas; and the plugins an edge keeps
alive. This file says what is modelled, what TLC checks on small instances, and
what TLAPS proves for every instance.

Run the models with `tlc -config X.cfg MCModule` and the proofs with
`tlapm Module.tla`, both in this directory. `PROJECT.json` lists every run, the
source lines behind every definition, the hazards, and, for each property a run
checks, a plausible bug that makes it fail (the definitions named
`Something_Variant`; they stand beside the definition they change, and no
specification uses them).

## The system and its parts

| Part | Source (under `internal/` unless it starts with `cmd` or `scripts`) | Modules | Proved |
|---|---|---|---|
| AgentTeams state ledger: `state.json`, eight phases per incident | `manager/biz/agentteams/state` | `TeamLedger` | yes |
| `agentteams-state` commands, HITL timeout monitor | `cmd/agentteams-state`, `scripts/opskeeper-hitl-monitor.sh` | `TeamCLI` (extends `TeamLedger`) | yes |
| HITL proposals: table, service, state machine | `manager/biz/hitl`, `manager/data/hitl/store`, `manager/model/hitl` | `HitlProposals` | yes |
| `recovery.execute` and the recovery audit | `manager/biz/aiops/tools`, `manager/data/hitl/store` | `RecoveryExecution` (extends `HitlProposals`) | yes |
| Leader election on Redis leases | `pkg/leader`, `pkg/redislock` | `LeaderElection` | yes |
| Incident loop orchestrator and its phase workers | `manager/biz/loop` | `LoopOrchestrator`, which implements `PhaseMachine` | yes |
| Workflow engine | `manager/biz/flow` | `FlowEngine` | yes |
| Cron triggers and the missed-run scan | `manager/biz/flow/scheduler.go`, `manager/biz/scheduler` | `CronScheduler` | yes |
| Alert evaluators and incidents | `manager/biz/alert` | `AlertIncidents` | yes |
| Notifications and their retries | `manager/biz/alert` | `AlertDelivery` | yes |
| Automatic investigation of incidents | `manager/biz/alert/investigator` | `Investigator` | yes |
| Chat turns and stops across replicas | `manager/service/aiops`, `pkg/wsfanout` | `ChatTurns` | yes |
| Plugins of an edge | `edgeagent/plugins` | `EdgePlugins` | yes |
| Everything else | see `PROJECT.json` and the last section | | |

`TeamCLI` composes the commands with the ledger they share, and
`RecoveryExecution` the executors with the service that decides the same
proposals. The ledger and the proposal table are two records of two workflows
(the Matrix-room workflow and the manager's own); no code keeps them in step, so
no module composes them. The other services meet in rows no model keeps on both
sides: an evaluator that creates an incident calls the investigator once
(`InvestigatedOnce`), and `Investigator` takes that call as its input `Fires`;
a cron trigger ends in a workflow run, and `FlowEngine` takes it as
`TriggerRun`; the leader key of the cron loop is `Lead` and `WorkerCancel` of
`CronScheduler`, which allow every loss of the key `LeaderElection` has.

### The run `services`

Nine services are checked in one run. `MCServices` extends their modules; its
variable `service` says which of them runs, is chosen in the initial state and
never changes, and the others stand still in one initial state. A behaviour of
the run is thus a behaviour of one module's specification and of no other, and
each property speaks of the variables of one module: it is checked on all
behaviours of that module's instance and holds trivially on the rest. Fairness
is stated once for the active service (`FirstProceeds`, `SecondProceeds`) and
is, service by service, the one in the module (`LoopFairSpec`, `FlowFairSpec`,
...). The names of the modules' definitions are distinct for this reason.

`CHECK_DEADLOCK FALSE` in all runs but the two of the election: at the bounds of
the clock, of the faults and of the inputs, and when every row is final, these
systems have nothing to do. The election always goes on, and deadlock is checked.

## TeamLedger

`Manager` takes an exclusive file lock, loads the file, applies one operation,
validates and renames (`withLock`, `update`, `save`), so one operation is one
action: `Initialize`, `Advance`, `StartHITL`, `RecordHITL`,
`CompleteEscalation`, `AddAudit`. An operation that returns an error leaves the
file alone, and its action is disabled. What an operation makes of a task is a
function of the task (`AdvancedTask`, `StartedTask`, `DecidedTask`), which the
proofs use. The phases before the review are the parameter `Intake` (in the
code alert_dedup, rca, critic_audit): nothing but `Advance` touches them, and
the proofs hold for any number of them. A time that matters only as text is
left out; the start of the approval, which decides when it is due, is kept.

| Run | Instance | Shows |
|---|---|---|
| `ledger` | one task, two admins, two requests, two decisions | the status agrees with the phases; repair starts by the assigned admin's approval; an outstanding approval is not taken over |
| `ledger_repair` (violation) | as `ledger` | `Advance` can complete a pending repair and then set it in progress: a repair runs with no approval on record, against the text of the error `Advance` gives for the direct call |

Two decisions let a second approval round follow a decided one, which is where
stale fields could survive; two requests and two admins let a round be confused
with another. The `Advance` calls of the instance finish, fail and restart the
phases around the approval and only finish the last two; request ids are
symmetric, being only compared. That an outstanding approval can expire, that an
escalation has its timeout on record and that no incident or room has two tasks
(`OutstandingCanExpire`, `EscalationHasDecision`, `UniqueMapping`) is proved.

## TeamCLI

A command is a process that holds no lock between its ledger operations:
`expire-hitl` is `ExpireBegin` (the `DueHITL` snapshot), `ExpireRecord` for each
task of it, `ListPending`, and `PostHook`/`Complete` for each escalation;
`retry-escalation` is the second half; `hitl --decision timeout_escalated` is
`HITLTimeout` followed by a post. The monitor script runs `expire-hitl` again
and again and exits with 1 on the first failure (`Ended`). A post that reports
failure may have been received (a lost answer), and a process may be killed
between any two steps (`Crash`, at most `MaxCrashes` times). The id that `hitl`
posts is its flag, while the ledger records the outstanding request; operators
pass the outstanding id or one of the constant `HitlFlags`. The runs have no
such wrong id: with one, `hitl` would page about another request.

| Run | Shows |
|---|---|
| `cli_once` | two tasks, a crash, a failing webhook: an overdue approval is decided and an escalation delivered in the end; what is marked delivered was posted |
| `cli_reopen` | the monitor, `retry-escalation` and `hitl` on one task whose review is reopened during a delivery: only timed-out requests are posted |
| `cli_stale_delivery` (violation) | in the same setting a late `CompleteEscalation` marks a newer escalation delivered |

Fairness: the monitor's own steps and the clock are weakly fair (one process in
a loop; time passes); starting the monitor again is weakly fair because the
service file in `scripts/README.md` says `Restart=on-failure`; and for each
notification strong fairness of an accepted post says that a webhook that is
tried again and again accepts at last. Admins, operators and crashes have no
fairness. `MaxClock = 3` with `Timeout = 1` lets both tasks be started at
different instants and both become overdue; `MaxDecisions` bounds the rounds
(`OverdueIsDecided` leaves out a task at that bound).

## HitlProposals and RecoveryExecution

`Service` calls are not transactions, so each database statement is an action
and a call in flight is the record `call[c]`: `DecideGet`, `DecideUpdate` and
`DecideRecheck` are `TransitionAgentTeams`; `PauseGet`, `PauseUpsert`,
`PauseUpdate` and `DeleteToken` are `Pause`; and so on. `Decide` is the single
conditional update of `Approve`, `Reject` and `Expire`. `Transition` is
`UPDATE ... WHERE id = ? AND state = ?`. A payload stands for its canonical
JSON and hash. Two history fields are added: `row.decided`, how the proposal
left pending, and `told`, the answers callers were given.

An executor reads the approved proposal (`ReserveGet`), moves it to executing
with a lease (`ReserveUpdate`), runs the command (`Dispatch`), reads the row
again (`CompletionGet`) and writes the outcome (`CompletionUpdate`); with
`skip_audit` it reserves nothing (`DrillStart`) and still completes the proposal
it names. `RecoverExpired` fails a proposal whose lease has run out; it is one
action because the lease does not change while the proposal is executing.
The tool's statements run under the context of the request, so any of them may
fail: a reservation that errs ends the tool before the dispatch, made or not
(`ReserveErrs`), and a completion that errs ends it after (`CompletionErrs`); no
statement is tried again. `ExecutorCrash` loses an executor at any point;
`MaxExecFaults` bounds crashes and failed statements together. `effects` records
every gated mutation in order, and `lost` the proposals that an executor left
behind in one of these ways.

| Run | Shows |
|---|---|
| `recovery` | decisions with and without a Matrix event, pauses, resumes and completions race on one proposal while two gated executors, a drill, a crash or a failed statement and the sweep work on it: a confirmed decision is the one in force; one mutation per approval at most, only under a matching approval in force; executed only by the executor that succeeded within its lease, or by a drill |
| `services` (recovery) | a reserved proposal gets a final state unless its executor died or failed to write it (`ReservationSettles`), with a drill that may complete it meanwhile |
| `hitl_token` (violation) | a paused proposal without a resume token: the loser of two pauses deletes the winner's row |

In `recovery` one caller goes through the calls that take several statements;
`Decide`, which takes one, races with it at any point, and two callers in one
call are the case `hitl_token` has and the proof of `AnswersTruthful` covers.
Two payloads and two events make a mismatch possible; `Lease = 1 = MaxClock`
lets a lease run out before, during and after a dispatch (`MaxClock = 2` in
`services`, where the proposal has a later expiry too). One proposal is enough:
no statement touches two rows, and the proofs cover any number. Symmetry is
taken over events and over executors of one kind, which occur only in
quantifiers. Fairness: each executor's next step is weakly fair (a run of the
tool goes on; its calls have timeouts). The sweep has none: nothing in the
manager calls `RecoverExpiredRecoveryExecution`, so the proposal of an executor
that crashed or could not complete it stays in executing. `SetResult` is left out for the same reason.

## LeaderElection

One role; roles share nothing but the manager's draining flag and quit channel.
`electLoop` and `renewLoop` are one goroutine per instance, `inst[i]`, whose
`pc` names the call it waits in: `try` (top of the loop, or backing off),
`acquire`/`acquired` (SET NX sent, applied), `starting`, `leading` (waiting for
the ticker or for the renewal), `renewed`/`refused`, `releasing`/`released`,
`down` (renewLoop has returned), `stopping`. What Redis applies and what the
instance is told are separate steps, and the answer may be lost.

Time is relative: `key.left` and `timer` count down together in `Tick`, so that
behaviours are unbounded in time with finitely many states. `Tick` waits for an
instance whose timer is at zero: requests are answered or timed out in time and
local code takes none. A process that is suspended past its timers (a long pause
of the machine) is outside of the model, and so is a Redis that loses the key.

| Run | Shows |
|---|---|
| `leader` | two instances, two faults, a short and a long start timeout: one leader if the key covers the timeouts; with any timeouts, a leader whose key lapsed steps down, draining ends without the key, and a leader emerges while there is a candidate |
| `leader_resign` (violation) | with the timeouts of `NewManager`: `ResignAll` returns while the instance waits for its worker's start, and the instance then becomes leader |

`LeaseCovers` is the condition under which one leader is guaranteed:
`TTL > AnswerTimeout + startTimeout + RenewInterval + 2 * RequestTimeout`, the
longest time from SET NX to the first renewal or the end of a release. The
defaults of `NewManager` (15s, 5s, 5s, requests of 2s) meet it if SET NX is
answered in less than a second; the defaults of `config.go:604-606`, which
`main.go` passes on, do not (a start timeout of 30s). Of the registered
workers `HarnessStart` and the report scheduler return from their start at once;
the flow scheduler first reads the database (`flow/scheduler.go:82`), under a
context without a deadline, so its start is as slow as that read.
`config.go:365-367` says that a start that times out is declared failed and the
lock released; `electLoop` takes it as running and leads.

In `leader`, `TTL = 6` is one more than the waits with `startTimeout = 1` and less
than `startTimeout = 7`, so the same run has leaders whose key always holds and
leaders whose key lapsed and was taken over. Two faults are what it takes for
missed renewals to outlive the key. Fairness: each instance's next step and
time are weakly fair; failures, closing and draining are not.

## LoopOrchestrator and PhaseMachine

`PhaseMachine` is what the loop promises of one incident: at most one walk at a
time, phases in order, at most `MaxRetryCount` falls from recovered back to
approved, and an end. `LoopOrchestrator` has any number of `Run` calls on the
incident, each on its `home` instance, over what the instances share: the event
log with its unique (type, phase, attempt), the contracts, the advisory lock. A
call is the cache look-up (`LookUp`), the lock (`TakeLock`, `Refused`), and per
phase the entry event, the worker's outcome (`Fail`, `Pause`, `RollBack`,
`Exhaust`, `Pass`), the contract and its event; then `Store` and `Release`. A
worker is the set of outcomes its code has (`Outcomes`), which depends on the
wiring and on the contracts of earlier phases. Writes may fail and an instance
may die with its calls (`InstanceDies`, which frees the lock as the end of a
database session does).

The run checks that a contract is stored before the event that announces it,
that the first walk can be followed from the log alone (`FirstWalkReported`),
and that the instances together implement `PhaseMachine` under the mapping
`WalkPhase`, `WalkRolled`: the one call between lock and result. Two calls, on
one instance or on two, for a whole loop under an idempotency key and for an
investigation only, with the LLM wiring and with the wiring of the tests, one
retry and one fault. Fairness: some call that can go on does (the lock has a
timeout, workers have deadlines).

## FlowEngine and CronScheduler

`FlowEngine` is one run: `triggerRun` writes the row, `Execute` activates the
triggers of the entry type, a node is a goroutine that waits for a slot of the
semaphore, runs, and fires the edges of its port; `runState.executed` makes it
run once. A node ends well, with an error (an error edge handles it) or by a
panic, which leaves its row at running; the verdict is computed when all
goroutines have ended and saved to the row. What a node did (`ran`, `outcome`,
`firedPort`) is kept apart from what its row says (`nodeStatus`), since the
engine ignores an error of `CreateNode` and of `UpdateNode`: a row that was not
created is inserted by the later save, and one whose save failed (`unsaved`)
stays behind. A failed save of the verdict is only logged and the manager lives
on (`FinalizeFails`, state `unwritten`). The process may die and boot again:
`Reboot` sweeps rows left at running, or fails to (`RebootUnswept`, state
`unhealed`); and another manager may boot on the same database (`BootElsewhere`
sweeps this run's row too). The two graphs are a
diamond with an error edge and a condition fed by triggers of two types; two
slots for up to three ready nodes make nodes wait. Checked: a node runs once at
most; the verdict is honest in both directions about what ran, and the node rows
agree with it but for the nodes that panicked or whose last save failed; a
verdict saved is what the row says whatever was swept; and no run stays at
running unless the statement that was to settle it failed. Fairness: some
goroutine that can go on does (executors have timeouts), and a manager that died
is started again. Nothing restarts a manager that lives, and nothing repeats the
sweep of a boot.

`CronScheduler` is the leader-elected tick loop over the cursors in
`flow_schedule_next_fire`: the list of flows, the critical section per flow
(`Visit`), the save (`Persist`), the trigger, the removal of cursors. A manager
that lost the key goes on until its context is cancelled (`WorkerCancel`). Flows
are switched and edited meanwhile. `OncePerOccurrence` and `NoBurst` are claimed
for histories that are `clean`: no save failed, and no loop was started while
another had not been told to stop or with entries left from an earlier term
(`Exposed`); the code repeats an occurrence in those cases. `DueMovesOn` is
liveness: an occurrence that is due is run or dropped. Two managers, one flow,
an edit and a fault; two ticks of time let an outage span several occurrences.
Fairness: a manager is started again, tries for the key, ticks, and learns of
its loss.

## AlertIncidents, AlertDelivery, Investigator

`AlertIncidents` has the tick of a metric rule on every manager: query, per
series the read and the insert, reopening or bump, then the sweep of what fired
on the last tick and does not any more. The unique index decides a lost race
(`LostRace`). Operators acknowledge, silence, resolve and revive. Checked: a
workflow is dispatched once per recurrence, and the table converges to the
metrics (`StatusConverges`), except for incidents cut `loose` by a restart, a
failed resolve or an operator who revived them, which no manager sweeps again.
Three changes let the metric turn on, off and on again under two managers.

`AlertDelivery` is one delivery row: the first attempt, and retry workers that
claim nothing and write back the attempt count they listed. The channel is
enabled, disabled (the budget is burnt) or deleted, and stays so: its look-up
then fails on every tick and the row is skipped (`SkipDeleted`). Checked:
retrying ends, although counts may go down and a success may be overwritten; in
the end nothing is sent and a failed row is settled, except that of a deleted
channel, which is listed for ever. The budget is that of `main.go` (5 attempts),
with two faults. Fairness: sends have timeouts, time passes, and every worker
ticks; it is stated per worker, so that one that skips a row for ever does not
stand for the others.

`Investigator` has the gates of `Enqueue` (cap, in-flight set, unique index),
the manual trigger that deletes the earlier report, the goroutine of an
investigation, and the start of a manager (`FailOrphaned`, backfill). Checked:
no permit leaks; over all managers the goroutines at work on an incident are the
one of its report and those of reports a manual trigger deleted (`replaced`, a
history of their ids); a ready report holds its own run's answer and is not
taken back; no report stays open for ever unless the statement that was to end
it failed. Two managers, one incident, two requests, a cap of one, one manual
trigger, two faults (a crash and a failing statement).

## ChatTurns

The turns of one session on several replicas: `BeginTurn` stores the cancel
function, the registration takes the lock, reads the holder and writes the owner,
and drops the lock only when that write fails; `Unregister` and `UnregisterCancel` end a turn; a stop looks up
the owner and cancels locally or sends a message (`HandleRemoteStop`). Each Redis
command is an action and may fail, messages are lost, keys expire, replicas die.
`SerialTurnStoppable` and `ConfirmedStopEnds` are claimed for turns that do not
overlap and without faults: what the code does for overlapping turns is the
subject of `chat_newer` (violation): `sameCancel` compares code addresses, so a
turn that ends removes the cancel function of a newer one. Two replicas, two
turns, one stop, one fault.

## EdgePlugins

The supervisor fetches the configurations, visits each plugin that changed,
configures, stops and starts it; a plugin's run loop spawns the child, reports it
as running, waits for its exit and backs off. The spawn (`cmd.Start`) and the
report (`setState`) are two steps (`Spawn`, `ReportRunning`) between which the
child may exit and anyone may read the health record. A loop whose stop timed out
lives on beside its successor (`Slots`). A change of the manager may leave the
edge without a notification, because that was lost or because the change is the
rollback of another one; fetches fail (the edge then falls back to its
environment), `Configure` fails, with the file half written perhaps (`torn`),
starts fail, stops give up (`cut`). Checked: one child per plugin; a health record
that says starting or running while there is a child, running once the loop
waits for it, and running only then or until its exit was seen; no child left
after the edge's end; and the manager's configuration applied in the end
(`ConfigApplied`), failed starts and configurations included, with the one
exception `WentBack` below. `edge_outage` (violation): while the manager
cannot be reached, the plugins it had enabled are stopped. The instance in
`services` has one plugin that is enabled at the start, two changes of its
configuration and one fault; `edge_outage` has two plugins. Fairness: the
supervisor's goroutine and its ticker run, and some run loop does; a child told
to stop exits, by SIGKILL at the latest.

## Proofs

The proofs assume only the named assumptions of the modules (`LedgerAssumption`,
`HitlAssumption`, `RecoveryAssumption`, `LeaderAssumption`, `LoopAssumption`,
`FlowAssumption`, `CronAssumption`, `NextAssumption`, `AlertAssumption`,
`SeriesExist`, `DeliveryAssumption`, `InvestigatorAssumption`, `ChatAssumption`,
`PluginAssumption`, `CLIAssumption`): distinguished values differ from ordinary
ones, bounds are natural numbers, the intake phases are distinct and none of the
five later ones, the next occurrence of a cron spec is later than the time it is
asked for, there is a replica, and incidents and requests are finitely many. Two
theorems about the commands have one hypothesis more each, said below. Most
leaves name the prover that finds them: Zenon where no arithmetic is needed, the
SMT solver elsewhere.

Every safety property a run checks and finds true is proved, and so is the
safety part of the one refinement a run checks (`ImplementsPhaseMachine`).

`TeamLedgerProofs`. `TypeOK` is inductive, and so is `LedgerInv`, the
conjunction of the state properties: each operation changes one task, and for
each task function there is a lemma that it preserves `StatusAgrees`,
`CanExpire` and `EscalationAgrees`. `UniqueMapping` rests on `MappingFree`.
The two action properties follow from `TypeOK` alone, one lemma per operation.

`CLISpec => Spec` is proved too (`CLIImplementsLedger`): each step of the
monitor and of the commands, killed half-way or not, is a ledger operation or
leaves `state.json` alone, so everything above holds under the commands. What
the processes carry needs an invariant of its own. `NoticesRecorded` has every
notification posted, and every one a process has yet to post, name a timeout on
record; decisions are only ever appended (`DecisionsGrow`), so it stays so. The
exception is the code's: `hitl` posts the request it is given, and a wrong one
(`HitlFlags`) is posted as it is; `CLIPostedOnRecord` therefore assumes that
there is none, as the runs do. `MonitorDeliveredWasPosted` assumes that the
monitor is the only process that delivers (`Operators = {}`): then what it holds
is what the ledger still says from its listing to its last write
(`MonitorUpToDate`). That is the setting of `cli_once`; with an operator beside
it `cli_stale_delivery` refutes the property.

`RecoveryProofs`, proposals. `AnswersTruthful` is not inductive: a caller in
`recheck`, or one that has read a pending row, must be covered. `HitlInv` adds
`RowAgrees` (a row in a decided state was decided that way), `CallAgrees` (what
a caller in flight holds is true of the row or will be refused by the update)
and `Confirmed` for the answers given. The step relation `RowEvolves` lists the
only ways a row changes; one lemma shows that the other callers' conjuncts
survive every such change, so each action is left with its own caller.

`RecoveryProofs`, executions. `RecoveryInv` adds `ExecAgrees` (a dispatching
executor's row is spent under its reservation, and authority once read stays)
and `EffectAgrees` (a mutation's proposal is spent: it never is approved again).
From the second `OneMutation` follows: a reservation needs an approved row, and
a spent row never becomes one. The steps of `HitlProposals` are reused through
`RowEvolves`: the service never leaves executing, so only an executor's
completion and the sweep do, and a gated executor that completes has
`ExecAgrees`.

`LeaderProofs`, the election. `TypeOK` becomes inductive with the bound on a
renewal in flight (`TypeInv`). `OneLeader` says nothing about the key, so
`LeaseInv` adds `Lease`: in each state the holder owns the key, and the key will
live longer than the current wait plus all the waits that may follow before it
is renewed or given up. Time takes one off both sides (`LeaseTick`); each step
of the holder enters a state whose margin is smaller by the wait it starts
(`LeaseActor`); and a step of another instance changes only a key that is free
or its own (`ActorKey`), so the holder's lease is untouched. Two leaders would
own the same key. `OthersKeepKey` follows from `ActorKey` for any timeouts.

`LeaderProofs`, the cron loop. `Agreed` is what the managers have to agree on
while the history is clean: one loop has not been told to stop, neither the
table nor its memory names a time at or before a run, and the run it is about to
start lies between the last one and the entry that replaces it. `Forward` holds
in any history.

`LoopProofs`. `LoopInv` has the lock name exactly the call that walks, ties the
attempt counter to the distance walked plus two per rollback (`Counted`), and
says that a call about to announce a contract has written it (`Announced`).
`LoopImplements` is the safety part of the refinement: with the lock exclusive,
`Walker` is the one call that walks, and a case per action shows that what it
does to `WalkPhase` and `WalkRolled` is a step or a stutter of `PhaseMachine`
(`LoopStepSimulates`). The fairness part stays with TLC. `FirstWalkReported`
compares the walk with a scan of the whole log, and the log drops a row it has
already: `Followed` says that while there was one call and no write was lost,
the rows are of earlier attempts or of this one's entry, so each row the call
writes is new and is the newest, and that is the one `State` goes by.

`ServiceProofs`, workflows. `ExecutedOnce` needs `Marked` (`executed` is exactly
the nodes with a goroutine), and `VerdictHonest` needs `Fired`: while no failure
is flagged, all that fired is executed or about to be, and each flagged failure
has an unhandled error behind it. What it says of the rows needs `Rows`: a node
that has not run has no row, and one that has ended has the row of its end,
unless its last save failed or it panicked. `Stages` ties the goroutines and the
verdict to the engine.

`ServiceProofs`, alerts. `ActiveIsTracked` becomes inductive with `Owned` (a
tick works on keys it owns) and `Seen` (rows read are there);
`DispatchPerRecurrence` with `Behind`: once a row is resolved, and for an
evaluator that has read so, the dispatches are behind the resolutions.
`DeliveryInv` carries the claim of the first attempt and the budget.

`InvestigatorProofs`. `OneInvestigation` is inductive only with `IdsKnown`:
every id that was given out is in the table or among the deleted ones, and no
more are deleted than triggers were counted, so that the bound of the model on
ids is never what stops a request. `AnswerOfItsRun` needs `NotYetReady`: a
goroutine that has yet to write its outcome finds its report not ready,
whichever manager failed it in between. `PermitsPaired` counts, node by node,
the calls and goroutines that hold a permit; one lemma per kind of change says
what that does to the cardinality. `ReadyStays` follows from the same invariant.

`ChatProofs`. Under `Quiet` (turns one after the other, nothing failed) there is
one turn in flight at most; `Registered` says what registry, lock and map hold
at each point of its life, and `StopReaches` that a stop aimed at it goes to its
replica. The second gives the safety half of `ConfirmedStopEnds`
(`ConfirmedStopReaches`): the turn is cancelled or the message is on its way.

`EdgeProofs`. `OneLoop` has every run loop of a plugin be the one its record
names, there only while the plugin is wanted or a `Stop` waits for it, and the
plugin not wanted when it is about to be started. `OneChild` follows; with
`ShutDown` (a plugin that shutdown is done with has no loop) so does
`NoChildLeft`. `HealthHonest` needs `HealthInv`, which says for every place of
the run loop which states the health record may have there (`Fits`), those
between the spawn and its report included. All three speak of
the plugins no `Stop` gave up on (`cut`).

Proved and not in a run: the type invariants, `OutstandingCanExpire`,
`EscalationHasDecision`, `UniqueMapping`, `StepsFollowTable`, `OneReservation`,
`OthersKeepKey`, `WalkExclusive`, `CapUnreached`, `NoNodeOutlivesRun`,
`CursorUnfired`, `ActiveIsTracked`, `InvestigatedOnce`, `FirstAttemptAlone`,
`WithinBudget`, `ConfirmedStopReaches`.

Only model-checked: liveness, which is out of the prover's reach
(`EscalationDelivered`, `OverdueIsDecided`, `ReservationSettles`, `RunSettles`,
`DueMovesOn`, `StatusConverges`, `RetriesEnd`, `ConfirmedStopEnds`,
`ConfigApplied`, `ReportSettles`, `StaleLeaderDemoted`, `DrainCompletes`,
`LeaderEmerges`, the fairness of `ImplementsPhaseMachine`); and the violations.

## Where the code and its texts differ

Six runs end in a violation, listed with the line they contradict under
`findings` in `PROJECT.json`: `ledger_repair`, `cli_stale_delivery`,
`hitl_token`, `leader_resign`, `chat_newer`, `edge_outage`.

Met while modelling, and kept in the models as the code has it:

- A `skip_audit` call completes the proposal it names even when another executor
  holds it (`recovery_execute_basetool.go:515`); `ExecutedByItsHolder` names the
  drill as the exception.
- `ForceEnqueue` is to kill the running worker (`usecase.go:458`), but the
  worker's id is on record only after it has ended (`usecase.go:605`): both run.
  `OneInvestigation` allows for them; the old one's writes reach no new report.
- `FailOrphaned` at the start of one manager fails the open reports of another
  that is alive. The running investigation still writes its answer.
- When the start that follows a stop fails, the supervisor of the edge keeps the
  plugin as running with the configuration before (`supervisor.go:218`): if the
  manager then goes back to that configuration, nothing changes and the plugin
  stays down, although `supervisor.go:196` says of this branch "Should be running
  with desCfg." In the same way a configuration file that could not be written
  to its end is not written again (`WentBack`).
- The engine ignores a failed write of a node's row (`engine.go:201`, `234`): a
  run that succeeded can have a node at running (`unsaved`). A failed save of the
  verdict (`usecase.go:352`) or sweep at boot (`usecase.go:393`) is logged, and
  the run stays at running until another boot.
- A completion of `recovery.execute` that fails leaves its proposal in executing
  with a live executor, and nothing calls the sweep (`lost`).
- A failed delivery to a deleted channel is listed and skipped on every tick
  (`retry.go:143`); the list is ordered by id and limited, so enough such rows
  keep newer ones from being retried. The limit is not modelled.
- A `Stop` that times out leaves its child beside the one started next (`cut`).
- A cron occurrence runs twice after a failed save or when a new leader starts
  before the old one learns of its loss (`clean`, `Exposed`).
- An incident that a restart, a failed resolve or an operator cuts loose stays
  active after its metric has recovered (`loose`).
- A retry may overwrite a delivery's success with a failure (`RetryUpdate`).

## Not modelled

What is left of the modelled parts is in the notes of `PROJECT.json`: the mkdir
lock and pidfile of the monitor script, the generic `CreateProposal`, the
subscribers of the election and a worker's life after its start, the eviction of
the loop's result cache, the other kinds of alert rules with cooldown, dampening
and inhibition, the node executors of a workflow, the plugins that run inside the
edge's process.

Not modelled as a whole, and why:

- Code that moves data between formats or to external services: HTTP and MCP
  servers, service adapters, clients, the edge's collectors and tunnel, IM
  bridge, marketplace, knowledge artifacts, the user interface. Its state is that
  of a request; what it does to the modelled parts is an input of theirs.
- What a model answers: prompts, chat runtime, diagnosis, the evaluation harness.
  An answer is a choice among outcomes here.
- Single statements and pure functions: preview gate, incident control records,
  HITL injection, policy and signatures, data guard, accounts. A row is written in
  one transaction, or one value is computed from another; there is no state
  between two steps for a property to be about.
- Code nothing calls: the sweep of expired leases beyond its effect on the row,
  `SetResult`, the expirer of chat proposals, the legacy approvals.
- One-off sequences before the manager serves or as it ends: migrations, dual
  write, shutdown beyond draining and resigning.

Most of the repository's lines are of these kinds (user interface, servers,
clients, tools around prompts, generated and fixture code), so the models cover a
small share of them: the share that keeps state between the steps of two actors.
