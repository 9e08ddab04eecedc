----------------------------- MODULE FlowEngine -----------------------------
(***************************************************************************)
(* One run of a workflow (internal/manager/biz/flow): triggerRun creates   *)
(* the run's row, Engine.Execute walks the graph with a goroutine for each *)
(* activated node, and the verdict is saved to the row.                    *)
(*                                                                         *)
(* The steps are those of the goroutines between two critical sections of  *)
(* runState.mu: one activation, a node's start in its semaphore slot, its  *)
(* end, the setting of the failed flag.  The engine ignores the errors of  *)
(* the statements that write a node's row, and only logs that of the       *)
(* verdict's save: each of them may fail.  The process may die at any      *)
(* point and is booted again; another manager may boot on the same         *)
(* database meanwhile.                                                     *)
(***************************************************************************)
EXTENDS Integers, FiniteSets

CONSTANTS
    FlowNodes,          \* node ids
    FlowGraphs,         \* the graphs a run may have: see FlowGraph
    EntryTypes,         \* trigger node types
    MaxConcurrentNodes, \* maxConcurrentNodes, 4 in the code
    MaxFlowFaults       \* bound: crashes, failed statements, boots elsewhere

Ports == {"next", "true", "false", "error"}

\* A Graph that Validate accepts: the trigger nodes with their type, the
\* ports of each node's type, and the control edges.  The order of the edges in
\* the document is left open: activated nodes run side by side.
FlowGraph == [triggers : SUBSET [node : FlowNodes, type : EntryTypes],
              ports    : [FlowNodes -> SUBSET (Ports \ {"error"})],
              edges    : SUBSET [source : FlowNodes, port : Ports, target : FlowNodes]]

ASSUME FlowAssumption ==
    /\ FlowGraphs \subseteq FlowGraph
    /\ MaxConcurrentNodes \in Nat \ {0}
    /\ MaxFlowFaults \in Nat

VARIABLES
    graph,          \* the graph parsed by triggerRun
    entry,          \* entryType
    runStatus,      \* status of the run's row, "none" before CreateRun
    engine,         \* where the goroutine of triggerRun is
    launch,         \* triggers Execute has still to activate
    executed,       \* runState.executed
    runFailed,      \* runState.failed
    node,           \* where the goroutine of each node is
    todo,           \* targets it has still to activate
    verdict,        \* the status Execute returned, or "none"
    ran,            \* history: how often each node was run
    outcome,        \* history: how it ended
    firedPort,      \* FiredPort, as runNode has it
    nodeStatus,     \* status of the node's row, "none" where there is none
    unsaved,        \* history: nodes whose UpdateNode failed
    flowFaults      \* faults so far

memory   == <<launch, executed, runFailed, node, todo>>
records  == <<ran, outcome, firedPort, nodeStatus, unsaved>>
flowVars == <<graph, entry, runStatus, engine, memory, verdict, records, flowFaults>>

\* The goroutine of a node waits for a slot, runs in it, and fires its port
\* or fails the run; after a panic it has left the slot when it fails the run.
NodePC == {"idle", "waiting", "running", "firing", "failing", "panicked", "done"}

Live == {"waiting", "running", "firing", "failing", "panicked"}

InSlot == {"running", "firing", "failing"}

\* The goroutine of triggerRun, or what has become of it: its last save failed
\* ("unwritten"), its process died and was started again, with or without the
\* sweep of that boot ("healed", "unhealed").
EnginePC == {"idle", "execute", "finalize", "ended", "unwritten", "dead", "healed", "unhealed"}

-----------------------------------------------------------------------------
(* The graph.                                                              *)

\* The targets of the edges that leave port p of node n.
EdgesFrom(g, n, p) == {t \in FlowNodes : [source |-> n, port |-> p, target |-> t] \in g.edges}

\* The triggers Execute starts from: those of the type that was triggered.
Entries(g, t) == {n \in FlowNodes : [node |-> n, type |-> t] \in g.triggers}

-----------------------------------------------------------------------------

FlowInit ==
    /\ graph \in FlowGraphs
    /\ entry \in {t \in EntryTypes : Entries(graph, t) # {}}
    /\ runStatus = "none"
    /\ engine = "idle"
    /\ launch = {}
    /\ executed = {}
    /\ runFailed = FALSE
    /\ node = [n \in FlowNodes |-> "idle"]
    /\ todo = [n \in FlowNodes |-> {}]
    /\ verdict = "none"
    /\ ran = [n \in FlowNodes |-> 0]
    /\ outcome = [n \in FlowNodes |-> "none"]
    /\ firedPort = [n \in FlowNodes |-> "none"]
    /\ nodeStatus = [n \in FlowNodes |-> "none"]
    /\ unsaved = {}
    /\ flowFaults = 0

CanFault ==
    /\ flowFaults < MaxFlowFaults
    /\ flowFaults' = flowFaults + 1

\* triggerRun: the row is there before the goroutine starts.
TriggerRun ==
    /\ engine = "idle"
    /\ runStatus' = "running"
    /\ engine' = "execute"
    /\ launch' = Entries(graph, entry)
    /\ UNCHANGED <<graph, entry, executed, runFailed, node, todo, verdict, records, flowFaults>>

\* Variant: the node is not marked when it is activated.
Activate_Unmarked(n) ==
    IF n \in executed \/ runFailed
    THEN UNCHANGED <<executed, node>>
    ELSE /\ node' = [node EXCEPT ![n] = "waiting"]
         /\ UNCHANGED executed

\* activate, under runState.mu.
Activate(n) ==
    IF n \in executed \/ runFailed
    THEN UNCHANGED <<executed, node>>
    ELSE /\ executed' = executed \cup {n}
         /\ node' = [node EXCEPT ![n] = "waiting"]

LaunchTrigger(n) ==
    /\ engine = "execute"
    /\ n \in launch
    /\ Activate(n)
    /\ launch' = launch \ {n}
    /\ UNCHANGED <<graph, entry, runStatus, engine, runFailed, todo, verdict, records, flowFaults>>

\* The goroutine takes a semaphore slot, resolves the node's config and
\* creates the node's row; it runs the node without one if that fails.
StartNode(n) ==
    /\ node[n] = "waiting"
    /\ Cardinality({m \in FlowNodes : node[m] \in InSlot}) < MaxConcurrentNodes
    /\ node' = [node EXCEPT ![n] = "running"]
    /\ ran' = [ran EXCEPT ![n] = @ + 1]
    /\ \/ nodeStatus' = [nodeStatus EXCEPT ![n] = "running"] /\ UNCHANGED flowFaults
       \/ CanFault /\ UNCHANGED nodeStatus
    /\ UNCHANGED <<graph, entry, runStatus, engine, launch, executed, runFailed, todo, verdict,
                   outcome, firedPort, unsaved>>

\* UpdateNode saves the whole row, and inserts it if it was not created; the
\* port fires whether the save was made or not.
Fire(n, p, status) ==
    /\ outcome' = [outcome EXCEPT ![n] = status]
    /\ firedPort' = [firedPort EXCEPT ![n] = p]
    /\ todo' = [todo EXCEPT ![n] = EdgesFrom(graph, n, p)]
    /\ \/ nodeStatus' = [nodeStatus EXCEPT ![n] = status] /\ UNCHANGED <<unsaved, flowFaults>>
       \/ CanFault /\ unsaved' = unsaved \cup {n} /\ UNCHANGED nodeStatus
    /\ UNCHANGED <<graph, entry, runStatus, engine, launch, executed, runFailed, verdict, ran>>

\* The executor returns a port; the row is updated, then the port fires.
NodeSucceeds(n, p) ==
    /\ node[n] = "running"
    /\ p \in graph.ports[n]
    /\ node' = [node EXCEPT ![n] = "firing"]
    /\ Fire(n, p, "succeeded")

\* Variant: an error on a node without an error edge is dropped.
NodeErrs_Dropped(n) ==
    /\ node[n] = "running"
    /\ node' = [node EXCEPT ![n] = "firing"]
    /\ Fire(n, "error", "failed")

\* The executor, or the resolution of the config, errs; an error port that
\* is not connected fails the run.
NodeErrs(n) ==
    /\ node[n] = "running"
    /\ node' = [node EXCEPT ![n] = IF EdgesFrom(graph, n, "error") = {} THEN "failing"
                                                                          ELSE "firing"]
    /\ Fire(n, "error", "failed")

\* The executor panics: the slot is given back, the row stays as it is.
NodePanics(n) ==
    /\ node[n] = "running"
    /\ node' = [node EXCEPT ![n] = "panicked"]
    /\ outcome' = [outcome EXCEPT ![n] = "panicked"]
    /\ UNCHANGED <<graph, entry, runStatus, engine, launch, executed, runFailed, todo, verdict,
                   ran, firedPort, nodeStatus, unsaved, flowFaults>>

FailRun(n) ==
    /\ node[n] \in {"failing", "panicked"}
    /\ runFailed' = TRUE
    /\ node' = [node EXCEPT ![n] = "done"]
    /\ UNCHANGED <<graph, entry, runStatus, engine, launch, executed, todo, verdict, records,
                   flowFaults>>

\* One edge of the fired port, or the end of the goroutine.
FireEdge(n, t) ==
    /\ node[n] = "firing"
    /\ t \in todo[n]
    /\ Activate(t)
    /\ todo' = [todo EXCEPT ![n] = @ \ {t}]
    /\ UNCHANGED <<graph, entry, runStatus, engine, launch, runFailed, verdict, records, flowFaults>>

NodeEnds(n) ==
    /\ node[n] = "firing"
    /\ todo[n] = {}
    /\ node' = [node EXCEPT ![n] = "done"]
    /\ UNCHANGED <<graph, entry, runStatus, engine, launch, executed, runFailed, todo, verdict,
                   records, flowFaults>>

\* runState.wg is at zero.
Drained == \A n \in FlowNodes : node[n] \notin Live

\* Execute returns.
ExecuteReturns ==
    /\ engine = "execute"
    /\ launch = {}
    /\ Drained
    /\ verdict' = IF runFailed THEN "failed" ELSE "succeeded"
    /\ engine' = "finalize"
    /\ UNCHANGED <<graph, entry, runStatus, memory, records, flowFaults>>

\* UpdateRun saves the row as triggerRun has it, whatever the row says now.
Finalize ==
    /\ engine = "finalize"
    /\ runStatus' = verdict
    /\ engine' = "ended"
    /\ UNCHANGED <<graph, entry, memory, verdict, records, flowFaults>>

\* A failed save is only logged: the manager lives on, and the row is running.
FinalizeFails ==
    /\ engine = "finalize"
    /\ CanFault
    /\ engine' = "unwritten"
    /\ UNCHANGED <<graph, entry, runStatus, memory, verdict, records>>

\* The manager dies, and with it every goroutine.
FlowCrash ==
    /\ engine \in {"execute", "finalize", "unwritten"}
    /\ CanFault
    /\ engine' = "dead"
    /\ launch' = {}
    /\ executed' = {}
    /\ runFailed' = FALSE
    /\ node' = [n \in FlowNodes |-> "idle"]
    /\ todo' = [n \in FlowNodes |-> {}]
    /\ UNCHANGED <<graph, entry, runStatus, verdict, records>>

\* Variant: every row is swept.
Swept_All(s) == "failed"

\* SweepStaleRunning.
Swept(s) == IF s = "running" THEN "failed" ELSE s

\* Variant: the boot heals nothing.
Reboot_Unhealed ==
    /\ engine = "dead"
    /\ engine' = "healed"
    /\ UNCHANGED <<graph, entry, runStatus, memory, verdict, records, flowFaults>>

\* The manager is started again: HealStaleRuns.
Reboot ==
    /\ engine = "dead"
    /\ runStatus' = Swept(runStatus)
    /\ engine' = "healed"
    /\ UNCHANGED <<graph, entry, memory, verdict, records, flowFaults>>

\* The sweep of that boot fails: HealStaleRuns logs it and returns.
RebootUnswept ==
    /\ engine = "dead"
    /\ CanFault
    /\ engine' = "unhealed"
    /\ UNCHANGED <<graph, entry, runStatus, memory, verdict, records>>

\* A manager boots on the same database: another one, or this one again.
BootElsewhere ==
    /\ engine # "idle"
    /\ CanFault
    /\ runStatus' = Swept(runStatus)
    /\ UNCHANGED <<graph, entry, engine, memory, verdict, records>>

NodeStep(n) ==
    \/ StartNode(n) \/ NodeErrs(n) \/ NodePanics(n) \/ FailRun(n) \/ NodeEnds(n)
    \/ \E t \in FlowNodes : FireEdge(n, t)
    \/ \E p \in Ports : NodeSucceeds(n, p)

EngineStep == (\E n \in FlowNodes : LaunchTrigger(n)) \/ ExecuteReturns \/ Finalize

FlowNext ==
    \/ TriggerRun
    \/ EngineStep
    \/ \E n \in FlowNodes : NodeStep(n)
    \/ FinalizeFails \/ FlowCrash \/ Reboot \/ RebootUnswept \/ BootElsewhere

FlowSpec == FlowInit /\ [][FlowNext]_flowVars

\* Some goroutine of the run goes on as long as one can: every executor has a
\* timeout, and a manager that died is started again.  Nobody restarts one that
\* lives, and no boot follows one whose sweep failed.
FlowProceeds == EngineStep \/ Reboot \/ \E n \in FlowNodes : NodeStep(n)

FlowFairSpec == FlowSpec /\ WF_flowVars(FlowProceeds)

-----------------------------------------------------------------------------
(* Properties *)

\* Execute-once: however the branches that lead to a node interleave, it is
\* run at most once (runState.executed).
ExecutedOnce == \A n \in FlowNodes : ran[n] <= 1

\* A node whose error nothing handles: an error with no error edge, or a panic;
\* or one that has not ended.
Unhandled(n) ==
    \/ outcome[n] \in {"none", "panicked"}
    \/ outcome[n] = "failed" /\ EdgesFrom(graph, n, "error") = {}

\* A verdict of success means the whole of what fired was run: the triggers of
\* the entry type and every target of a fired port were, and no error was left
\* unhandled.  A verdict of failure has an unhandled error behind it.  Under
\* either the rows tell how the nodes ended, created or not when the node began,
\* but for a node whose UpdateNode failed or that panicked: its row is
\* never written again.
VerdictHonest ==
    /\ verdict = "succeeded" =>
         /\ \A n \in Entries(graph, entry) : ran[n] = 1
         /\ \A n \in FlowNodes : ran[n] = 1 =>
              /\ ~Unhandled(n)
              /\ \A t \in EdgesFrom(graph, n, firedPort[n]) : ran[t] = 1
    /\ verdict = "failed" => \E n \in FlowNodes : ran[n] = 1 /\ Unhandled(n)
    /\ verdict # "none" => \A n \in FlowNodes :
         n \in unsaved \/ outcome[n] = "panicked" \/ nodeStatus[n] = outcome[n]

\* Execute has no node behind it when it returns: no goroutine of the run is
\* left, waiting for a slot or running, once there is a verdict.
NoNodeOutlivesRun == verdict # "none" => \A n \in FlowNodes : node[n] \notin Live

\* The row ends with the verdict of the engine when its save was made, even if
\* the boot of another manager swept the row while the run was in flight.
VerdictLands == engine = "ended" => runStatus = verdict

\* A run that was recorded as running is settled, whatever the width of the
\* graph and the number of slots: by the engine, or after a crash by the sweep of
\* the next boot.  It stays at running when the statement that was to settle it
\* failed, the save of the verdict or that sweep; the code only logs the error.
RunSettles == []<>(runStatus # "running" \/ engine \in {"unwritten", "unhealed"})
=============================================================================
