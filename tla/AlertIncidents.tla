--------------------------- MODULE AlertIncidents ---------------------------
(***************************************************************************)
(* Incidents of one metric_raw alert rule (internal/manager/biz/alert):    *)
(* the tick of PipelineEvaluator.evaluatePromQuery with RecordFiring and   *)
(* SystemResolveIncident, on every manager at once, against operators who  *)
(* acknowledge, silence and resolve.                                       *)
(*                                                                         *)
(* The managers share the incidents table and nothing else: each keeps in  *)
(* memory the series that fired on its last tick, and resolves what fell   *)
(* out of it.  A tick is cut at its reads and writes of the table.         *)
(***************************************************************************)
EXTENDS Integers

CONSTANTS
    Evaluators,     \* managers; each runs one PipelineEvaluator
    Series,         \* label sets of the rule's expression: the dedupe keys
    MaxChanges,     \* bound: changes of the metrics, the rule and by operators
    MaxAlertFaults  \* bound: restarts and failed database calls

ASSUME AlertAssumption == MaxChanges \in Nat /\ MaxAlertFaults \in Nat

ASSUME SeriesExist == Series # {}

VARIABLES
    matching,       \* series the expression returns now
    ruleOn,         \* the rule is enabled
    incident,       \* status of the row of each dedupe key, "none": no row
    evaluator,      \* where each evaluator is
    fired,          \* in a tick: the keys it owns
    firingSnapshot, \* the keys of its last tick, in memory
    queue,          \* in a tick: keys still to record, then still to sweep
    key,            \* in a tick: the key it works on
    status,         \* in a tick: the status it read for that key
    loose,          \* history: keys that lost their tracking, see Restart
    investigated,   \* history: number of InvestigateAsync calls of each key
    dispatched,     \* history: OnAlertFired calls of each evaluator and key
    resolutions,    \* history: writes of resolved to each row
    changes, alertFaults

tickLocals == <<evaluator, fired, firingSnapshot, queue, key, status>>
history    == <<investigated, dispatched, resolutions>>
bounds     == <<changes, alertFaults>>
world      == <<matching, ruleOn>>
alertVars  == <<world, incident, tickLocals, loose, history, bounds>>

Active == {"open", "acknowledged", "silenced"}

Status == Active \cup {"none", "resolved"}

EvalPC == {"idle", "record", "write", "sweep", "resolve"}

AnySeries == CHOOSE k \in Series : TRUE

AlertInit ==
    /\ matching = {}
    /\ ruleOn = TRUE
    /\ incident = [k \in Series |-> "none"]
    /\ evaluator = [e \in Evaluators |-> "idle"]
    /\ fired = [e \in Evaluators |-> {}]
    /\ firingSnapshot = [e \in Evaluators |-> {}]
    /\ queue = [e \in Evaluators |-> {}]
    /\ key = [e \in Evaluators |-> AnySeries]
    /\ status = [e \in Evaluators |-> "none"]
    /\ loose = {}
    /\ investigated = [k \in Series |-> 0]
    /\ dispatched = [e \in Evaluators |-> [k \in Series |-> 0]]
    /\ resolutions = [k \in Series |-> 0]
    /\ changes = 0 /\ alertFaults = 0

-----------------------------------------------------------------------------
(* The world: metrics, rule edits, operators.                              *)

Changes == changes < MaxChanges /\ changes' = changes + 1 /\ UNCHANGED alertFaults

SeriesTurns(k) ==
    /\ Changes
    /\ matching' = IF k \in matching THEN matching \ {k} ELSE matching \cup {k}
    /\ UNCHANGED <<ruleOn, incident, tickLocals, loose, history>>

\* EnableRule and DisableRule, as MetricRawRules gives it to the tick.
RuleSwitched ==
    /\ Changes
    /\ ruleOn' = ~ruleOn
    /\ UNCHANGED <<matching, incident, tickLocals, loose, history>>

\* UpdateIncidentStatus, whatever the row says.
UpdateIncidentStatus(k, s) ==
    /\ incident' = [incident EXCEPT ![k] = s]
    /\ resolutions' = IF s = "resolved" THEN [resolutions EXCEPT ![k] = @ + 1] ELSE resolutions

\* AckIncident, SilenceIncident, ResolveIncident.  They take a resolved row
\* too, and revive it behind the evaluators' backs.
Operator(k, s) ==
    /\ Changes
    /\ incident[k] # "none"
    /\ s \in {"acknowledged", "silenced", "resolved"}
    /\ UpdateIncidentStatus(k, s)
    /\ loose' = IF incident[k] = "resolved" /\ s # "resolved" THEN loose \cup {k} ELSE loose
    /\ UNCHANGED <<world, tickLocals, investigated, dispatched>>

-----------------------------------------------------------------------------
(* A tick.                                                                 *)

At(e, p) == evaluator' = [evaluator EXCEPT ![e] = p]

\* The query answers.  One that errs ends the tick of the rule as it began.
Query(e) ==
    /\ evaluator[e] = "idle"
    /\ ruleOn
    /\ At(e, "record")
    /\ fired' = [fired EXCEPT ![e] = matching]
    /\ queue' = [queue EXCEPT ![e] = matching]
    /\ loose' = loose \ matching
    /\ UNCHANGED <<world, incident, firingSnapshot, key, status, history, bounds>>

\* RecordFiring: GetIncidentByDedupeKey.
GetFiring(e, k) ==
    /\ evaluator[e] = "record"
    /\ k \in queue[e]
    /\ At(e, "write")
    /\ queue' = [queue EXCEPT ![e] = @ \ {k}]
    /\ key' = [key EXCEPT ![e] = k]
    /\ status' = [status EXCEPT ![e] = incident[k]]
    /\ UNCHANGED <<world, incident, fired, firingSnapshot, loose, history, bounds>>

\* RecordFiring, no row was read: CreateIncident, and both dispatches.
Create(e) ==
    /\ evaluator[e] = "write"
    /\ status[e] = "none"
    /\ incident[key[e]] = "none"
    /\ At(e, "record")
    /\ incident' = [incident EXCEPT ![key[e]] = "open"]
    /\ investigated' = [investigated EXCEPT ![key[e]] = @ + 1]
    /\ dispatched' = [dispatched EXCEPT ![e][key[e]] = @ + 1]
    /\ UNCHANGED <<world, fired, firingSnapshot, queue, key, status, loose, resolutions, bounds>>

\* The unique index refused the row: another evaluator made it, read it again.
LostRace(e) ==
    /\ evaluator[e] = "write"
    /\ status[e] = "none"
    /\ incident[key[e]] # "none"
    /\ status' = [status EXCEPT ![e] = incident[key[e]]]
    /\ UNCHANGED <<world, incident, evaluator, fired, firingSnapshot, queue, key, loose, history, bounds>>

\* ReopenIncident, and the workflow dispatch.
Reopen(e) ==
    /\ evaluator[e] = "write"
    /\ status[e] = "resolved"
    /\ At(e, "record")
    /\ incident' = [incident EXCEPT ![key[e]] = "open"]
    /\ dispatched' = [dispatched EXCEPT ![e][key[e]] = @ + 1]
    /\ UNCHANGED <<world, fired, firingSnapshot, queue, key, status, loose, investigated,
                   resolutions, bounds>>

\* Variant: every bump dispatches the workflows.
Bump_Dispatch(e) ==
    /\ evaluator[e] = "write"
    /\ status[e] \in Active
    /\ At(e, "record")
    /\ dispatched' = [dispatched EXCEPT ![e][key[e]] = @ + 1]
    /\ UNCHANGED <<world, incident, fired, firingSnapshot, queue, key, status, loose,
                   investigated, resolutions, bounds>>

\* BumpIncidentFiring leaves the status.
Bump(e) ==
    /\ evaluator[e] = "write"
    /\ status[e] \in Active
    /\ At(e, "record")
    /\ UNCHANGED <<world, incident, fired, firingSnapshot, queue, key, status, loose, history, bounds>>

AlertFault == alertFaults < MaxAlertFaults /\ alertFaults' = alertFaults + 1 /\ UNCHANGED changes

\* The write fails; the tick goes on with the next series.
RecordFails(e) ==
    /\ evaluator[e] = "write"
    /\ AlertFault
    /\ At(e, "record")
    /\ UNCHANGED <<world, incident, fired, firingSnapshot, queue, key, status, loose, history>>

\* The recovery sweep begins: what was fired last tick and is not now.
BeginSweep(e) ==
    /\ evaluator[e] = "record"
    /\ queue[e] = {}
    /\ At(e, "sweep")
    /\ queue' = [queue EXCEPT ![e] = firingSnapshot[e] \ fired[e]]
    /\ UNCHANGED <<world, incident, fired, firingSnapshot, key, status, loose, history, bounds>>

\* Variant: what an operator has acknowledged or silenced is left to them.
GetCleared_OpenOnly(e, k) ==
    /\ evaluator[e] = "sweep"
    /\ k \in queue[e]
    /\ At(e, IF incident[k] = "open" THEN "resolve" ELSE "sweep")
    /\ queue' = [queue EXCEPT ![e] = @ \ {k}]
    /\ key' = [key EXCEPT ![e] = k]
    /\ UNCHANGED <<world, incident, fired, firingSnapshot, status, loose, history, bounds>>

\* SystemResolveIncident reads the row; nothing to do when there is none or it
\* is resolved.
GetCleared(e, k) ==
    /\ evaluator[e] = "sweep"
    /\ k \in queue[e]
    /\ At(e, IF incident[k] \in Active THEN "resolve" ELSE "sweep")
    /\ queue' = [queue EXCEPT ![e] = @ \ {k}]
    /\ key' = [key EXCEPT ![e] = k]
    /\ UNCHANGED <<world, incident, fired, firingSnapshot, status, loose, history, bounds>>

\* ... and writes resolved.
SystemResolve(e) ==
    /\ evaluator[e] = "resolve"
    /\ At(e, "sweep")
    /\ UpdateIncidentStatus(key[e], "resolved")
    /\ UNCHANGED <<world, fired, firingSnapshot, queue, key, status, loose, investigated,
                   dispatched, bounds>>

\* The write fails: a warning, and the key is not in the next snapshot.
ResolveFails(e) ==
    /\ evaluator[e] = "resolve"
    /\ AlertFault
    /\ At(e, "sweep")
    /\ loose' = loose \cup {key[e]}
    /\ UNCHANGED <<world, incident, fired, firingSnapshot, queue, key, status, history>>

\* firingSnapshot = fired.
EndTick(e) ==
    /\ evaluator[e] = "sweep"
    /\ queue[e] = {}
    /\ At(e, "idle")
    /\ firingSnapshot' = [firingSnapshot EXCEPT ![e] = fired[e]]
    /\ fired' = [fired EXCEPT ![e] = {}]
    /\ key' = [key EXCEPT ![e] = AnySeries]
    /\ status' = [status EXCEPT ![e] = "none"]
    /\ UNCHANGED <<world, incident, queue, loose, history, bounds>>

\* The manager dies and starts again, with an empty snapshot.
Restart(e) ==
    /\ AlertFault
    /\ At(e, "idle")
    /\ loose' = loose \cup firingSnapshot[e] \cup fired[e]
    /\ firingSnapshot' = [firingSnapshot EXCEPT ![e] = {}]
    /\ fired' = [fired EXCEPT ![e] = {}]
    /\ queue' = [queue EXCEPT ![e] = {}]
    /\ key' = [key EXCEPT ![e] = AnySeries]
    /\ status' = [status EXCEPT ![e] = "none"]
    /\ UNCHANGED <<world, incident, history>>

EvalStep(e) ==
    \/ \E k \in Series : GetFiring(e, k) \/ GetCleared(e, k)
    \/ Query(e) \/ Create(e) \/ LostRace(e) \/ Reopen(e) \/ Bump(e)
    \/ BeginSweep(e) \/ SystemResolve(e) \/ EndTick(e)

AlertNext ==
    \/ RuleSwitched
    \/ \E k \in Series : SeriesTurns(k) \/ \E s \in Status : Operator(k, s)
    \/ \E e \in Evaluators : \/ EvalStep(e)
                             \/ RecordFails(e) \/ ResolveFails(e) \/ Restart(e)

AlertSpec == AlertInit /\ [][AlertNext]_alertVars

\* The ticker of each manager keeps firing and its calls return.
AlertFairSpec == AlertSpec /\ \A e \in Evaluators : WF_alertVars(EvalStep(e))

-----------------------------------------------------------------------------
(* Properties *)

\* The types of the table and of the evaluators' memory.
AlertTypeOK ==
    /\ matching \subseteq Series
    /\ ruleOn \in BOOLEAN
    /\ incident \in [Series -> Status]
    /\ evaluator \in [Evaluators -> EvalPC]
    /\ fired \in [Evaluators -> SUBSET Series]
    /\ firingSnapshot \in [Evaluators -> SUBSET Series]
    /\ queue \in [Evaluators -> SUBSET Series]
    /\ key \in [Evaluators -> Series]
    /\ status \in [Evaluators -> Status]
    /\ loose \subseteq Series
    /\ investigated \in [Series -> Nat]
    /\ dispatched \in [Evaluators -> [Series -> Nat]]
    /\ resolutions \in [Series -> Nat]
    /\ changes \in 0..MaxChanges
    /\ alertFaults \in 0..MaxAlertFaults

\* Evaluator e still has k to sweep, at the end of this tick or of the next.
Tracks(e, k) ==
    \/ k \in fired[e]
    \/ k \in firingSnapshot[e] /\ (evaluator[e] \in {"sweep", "resolve"} => k \in queue[e])
    \/ evaluator[e] = "resolve" /\ key[e] = k

\* Recovery cannot be forgotten: an incident that is not resolved is in the
\* memory of an evaluator that will look at it again, however the ticks of the
\* managers interleave, unless it was cut loose by a restart, a failed resolve
\* or an operator who revived it.
ActiveIsTracked ==
    \A k \in Series : incident[k] \in Active /\ k \notin loose
                         => \E e \in Evaluators : Tracks(e, k)

\* A new incident is investigated once: of the evaluators that find no row,
\* only the one whose insert the unique index took starts the AI investigation.
InvestigatedOnce == \A k \in Series : investigated[k] = IF incident[k] = "none" THEN 0 ELSE 1

\* A remediation workflow is started by real recurrences, not by every tick: an
\* evaluator dispatches an incident again only after the row was resolved again.
DispatchPerRecurrence ==
    \A e \in Evaluators, k \in Series : dispatched[e][k] <= 1 + resolutions[k]

\* The table follows the metrics: when changes cease the incident comes to be
\* active if the condition holds and resolved if it does not, also when a manager
\* that queried before the change reopens or bumps it afterwards; the rule has to
\* be enabled, and the incident not loose.
StatusConverges ==
    \A k \in Series :
       []<>(~ruleOn \/ k \in loose \/ (incident[k] \in Active <=> k \in matching))
=============================================================================
