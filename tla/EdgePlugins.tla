----------------------------- MODULE EdgePlugins -----------------------------
(***************************************************************************)
(* The plugins of an edge: the Supervisor of internal/edgeagent/plugins,   *)
(* which reconciles them against the configurations the manager keeps, and *)
(* the SubprocessPlugin behind each, whose run loop keeps a child process  *)
(* alive.  The supervisor, the run loops, the manager's changes and the    *)
(* end of the edge's context interleave.                                   *)
(*                                                                         *)
(* A configuration is one value: configEqual compares all of its fields,   *)
(* and Off stands for a plugin that is not enabled.  A child is spawned    *)
(* with the cfg field and the configuration file of its plugin, which      *)
(* Configure writes together; torn is a file it could not write to the     *)
(* end, and Off the configuration of a child that reads one.               *)
(***************************************************************************)
EXTENDS Integers, FiniteSetsExt

CONSTANTS
    Plugins,            \* the registered plugins
    Configs,            \* configurations of an enabled plugin
    Off,                \* a plugin that is not enabled
    NoPlugin,           \* the supervisor is at no plugin
    EnvSnapshots,       \* what the edge's environment may say of the plugins
    MaxSets,            \* bound on the changes of a configuration
    MaxPluginFaults     \* bound on failures, crashes and timeouts

ASSUME PluginAssumption ==
    /\ IsFiniteSet(Plugins)
    /\ Off \notin Configs
    /\ NoPlugin \notin Plugins
    /\ EnvSnapshots \subseteq [Plugins -> Configs \cup {Off}]
    /\ MaxSets \in Nat
    /\ MaxPluginFaults \in Nat

VARIABLES
    desired,        \* the manager's configuration of each plugin
    sets,           \* changes made to it
    envSnapshot,    \* the configurations in the edge's environment
    reloadSignal,   \* whether the channel of length one holds a signal
    ctxDone,        \* the edge's context has ended
    sup,            \* the supervisor's goroutine
    currentCfg,     \* the configuration last applied, per plugin
    running,        \* the plugins the supervisor has started
    sub,            \* the fields of each SubprocessPlugin
    loop,           \* the goroutines of its run loops
    cut,            \* history: plugins of which a Stop did not wait to the end
    pluginFaults

pluginVars == <<desired, sets, envSnapshot, reloadSignal, ctxDone, sup, currentCfg, running,
                sub, loop, cut, pluginFaults>>

managerSide == <<desired, sets, envSnapshot>>
edgeState == <<currentCfg, running, sub, loop>>

Snapshots == [Plugins -> Configs \cup {Off}]

\* A Stop that gives up on a run loop leaves it behind.  It does so by a fault or
\* in a reconcile that outlives the context, and those but the first are faults.
Slots == 0..(MaxPluginFaults + 1)

Gone == [pc |-> "gone", cancelled |-> FALSE, cfg |-> Off]

AllOff == [p \in Plugins |-> Off]

\* The supervisor between two plugins: those still to visit, the snapshot they
\* are compared with, and whether shutdown is what visits them.
Between(pc, todo, snapshot, closing) ==
    [pc |-> pc, at |-> NoPlugin, todo |-> todo, snapshot |-> snapshot, closing |-> closing]

\* Run begins with a reconcile.
PluginInit ==
    /\ desired \in Snapshots
    /\ sets = 0
    /\ envSnapshot \in EnvSnapshots
    /\ reloadSignal = FALSE
    /\ ctxDone = FALSE
    /\ sup = Between("fetch", {}, AllOff, FALSE)
    /\ currentCfg = AllOff
    /\ running = {}
    /\ sub = [p \in Plugins |-> [cfg |-> Off, torn |-> FALSE, wantRunning |-> FALSE,
                                 health |-> "stopped", loop |-> 0]]
    /\ loop = [p \in Plugins |-> [s \in Slots |-> Gone]]
    /\ cut = {}
    /\ pluginFaults = 0

PluginFault == pluginFaults < MaxPluginFaults /\ pluginFaults' = pluginFaults + 1

-----------------------------------------------------------------------------
(* The manager, the tunnel and the edge's context *)

\* PluginConfigUC.Set: the row is written, then the edge is notified, whose
\* TriggerReload leaves a signal.  There is none when notify fails, which is only
\* logged, or when the secrets of a database plugin do not reach the edge; the row
\* is then put back, which is another write without a signal.  The ticker may wake
\* the supervisor at any time, so it may fetch before it is notified, as in Set.
SetConfig(p, c) ==
    /\ sets < MaxSets
    /\ c # desired[p]
    /\ desired' = [desired EXCEPT ![p] = c]
    /\ sets' = sets + 1
    /\ reloadSignal' \in {reloadSignal, TRUE}
    /\ UNCHANGED <<envSnapshot, ctxDone, sup, edgeState, cut, pluginFaults>>

\* The context of every run loop is derived from the edge's.
EdgeQuits ==
    /\ ~ctxDone
    /\ ctxDone' = TRUE
    /\ loop' = [p \in Plugins |-> [s \in Slots |->
                  IF loop[p][s] = Gone THEN Gone ELSE [loop[p][s] EXCEPT !.cancelled = TRUE]]]
    /\ UNCHANGED <<managerSide, reloadSignal, sup, currentCfg, running, sub, cut, pluginFaults>>

-----------------------------------------------------------------------------
(* Supervisor *)

\* A reload signal, or the ticker.  The select of Run picks any case that is
\* ready: either may still be picked when the context is done, a number of times.
Wake ==
    /\ sup.pc = "idle"
    /\ IF ctxDone THEN PluginFault ELSE UNCHANGED pluginFaults
    /\ reloadSignal' \in {reloadSignal, FALSE}
    /\ sup' = [sup EXCEPT !.pc = "fetch"]
    /\ UNCHANGED <<managerSide, ctxDone, edgeState, cut>>

\* get_plugin_configs answers with the manager's rows.
Fetch ==
    /\ sup.pc = "fetch"
    /\ sup' = Between("visit", Plugins, desired, FALSE)
    /\ UNCHANGED <<managerSide, reloadSignal, ctxDone, edgeState, cut, pluginFaults>>

\* The call fails, or its context is done: the snapshot of the environment is
\* used instead.
FetchFails ==
    /\ sup.pc = "fetch"
    /\ (ctxDone /\ UNCHANGED pluginFaults) \/ PluginFault
    /\ sup' = Between("visit", Plugins, envSnapshot, FALSE)
    /\ UNCHANGED <<managerSide, reloadSignal, ctxDone, edgeState, cut>>

Changed(p) == currentCfg[p] # sup.snapshot[p]

\* Reconcile compares plugin p with the snapshot and begins with its first step;
\* shutdown stops every plugin.
VisitPlugin(p) ==
    /\ sup.pc = "visit"
    /\ p \in sup.todo
    /\ LET enabled == ~sup.closing /\ sup.snapshot[p] # Off
           first == CASE enabled /\ Changed(p) -> "configure"
                      [] enabled /\ ~Changed(p) /\ p \notin running -> "start"
                      [] ~enabled /\ (sup.closing \/ p \in running) -> "stop"
                      [] OTHER -> "visit"
       IN sup' = [sup EXCEPT !.pc = first, !.todo = @ \ {p},
                             !.at = IF first = "visit" THEN NoPlugin ELSE p]
    /\ UNCHANGED <<managerSide, reloadSignal, ctxDone, edgeState, cut, pluginFaults>>

\* The supervisor has done with a plugin.
NextPlugin == sup' = [sup EXCEPT !.pc = "visit", !.at = NoPlugin]

\* Every plugin is visited.
VisitEnds ==
    /\ sup.pc = "visit"
    /\ sup.todo = {}
    /\ sup' = Between(IF sup.closing THEN "ended" ELSE "idle", {}, AllOff, FALSE)
    /\ UNCHANGED <<managerSide, reloadSignal, ctxDone, edgeState, cut, pluginFaults>>

\* Configure: the configuration is written; a plugin that runs is then stopped.
Configure ==
    /\ sup.pc = "configure"
    /\ sub' = [sub EXCEPT ![sup.at].cfg = sup.snapshot[sup.at], ![sup.at].torn = FALSE]
    /\ sup' = [sup EXCEPT !.pc = IF sup.at \in running THEN "stop" ELSE "start"]
    /\ UNCHANGED <<managerSide, reloadSignal, ctxDone, currentCfg, running, loop, cut,
                   pluginFaults>>

\* Configure returns an error: the plugin is left as it is, but for the file if
\* that is what could not be written.
ConfigureFails ==
    /\ sup.pc = "configure"
    /\ PluginFault
    /\ sub' \in {sub, [sub EXCEPT ![sup.at].torn = TRUE]}
    /\ NextPlugin
    /\ UNCHANGED <<managerSide, reloadSignal, ctxDone, currentCfg, running, loop, cut>>

\* What follows Stop: shutdown and a plugin that is not enabled have done with
\* it, a plugin with a new configuration is started.
AfterStop ==
    LET p == sup.at
        disabled == ~sup.closing /\ sup.snapshot[p] = Off
    IN /\ running' = IF disabled THEN running \ {p} ELSE running
       /\ currentCfg' = IF disabled THEN [currentCfg EXCEPT ![p] = Off] ELSE currentCfg
       /\ IF sup.closing \/ disabled THEN NextPlugin ELSE sup' = [sup EXCEPT !.pc = "start"]

\* Stop: the run loop's context is cancelled.
StopPlugin ==
    LET p == sup.at
    IN /\ sup.pc = "stop"
       /\ sub[p].wantRunning
       /\ sub' = [sub EXCEPT ![p].wantRunning = FALSE]
       /\ loop' = [loop EXCEPT ![p][sub[p].loop] =
                     IF @ = Gone THEN Gone ELSE [@ EXCEPT !.cancelled = TRUE]]
       /\ sup' = [sup EXCEPT !.pc = "wait"]
       /\ UNCHANGED <<managerSide, reloadSignal, ctxDone, currentCfg, running, cut, pluginFaults>>

\* Stop of a plugin that is not running returns.
StopNothing ==
    /\ sup.pc = "stop"
    /\ ~sub[sup.at].wantRunning
    /\ AfterStop
    /\ UNCHANGED <<managerSide, reloadSignal, ctxDone, sub, loop, cut, pluginFaults>>

\* Variant: Stop does not wait for the run loop.
StopWaited_Not ==
    /\ sup.pc = "wait"
    /\ AfterStop
    /\ UNCHANGED <<managerSide, reloadSignal, ctxDone, sub, loop, cut, pluginFaults>>

\* The run loop has closed its channel.
StopWaited ==
    /\ sup.pc = "wait"
    /\ loop[sup.at][sub[sup.at].loop] = Gone
    /\ AfterStop
    /\ UNCHANGED <<managerSide, reloadSignal, ctxDone, sub, loop, cut, pluginFaults>>

\* Stop gives up after 15 seconds, and at once when reconcile's context is done
\* (that of shutdown is a fresh one).
StopCut ==
    /\ sup.pc = "wait"
    /\ loop[sup.at][sub[sup.at].loop] # Gone
    /\ (ctxDone /\ ~sup.closing /\ UNCHANGED pluginFaults) \/ PluginFault
    /\ cut' = cut \cup {sup.at}
    /\ AfterStop
    /\ UNCHANGED <<managerSide, reloadSignal, ctxDone, sub, loop>>

\* Start: a run loop begins, with the edge's context, and the supervisor notes
\* the plugin and its configuration.
StartPlugin ==
    LET p == sup.at
        s == Min({x \in Slots : loop[p][x] = Gone})
    IN /\ sup.pc = "start"
       /\ sub' = [sub EXCEPT ![p].wantRunning = TRUE, ![p].loop = s]
       /\ loop' = [loop EXCEPT ![p][s] = [Gone EXCEPT !.pc = "begin", !.cancelled = ctxDone]]
       /\ running' = running \cup {p}
       /\ currentCfg' = [currentCfg EXCEPT ![p] = sup.snapshot[p]]
       /\ NextPlugin
       /\ UNCHANGED <<managerSide, reloadSignal, ctxDone, cut, pluginFaults>>

\* Variant: the supervisor notes the plugin before it is started.
StartFails_Noted ==
    /\ sup.pc = "start"
    /\ PluginFault
    /\ running' = running \cup {sup.at}
    /\ currentCfg' = [currentCfg EXCEPT ![sup.at] = sup.snapshot[sup.at]]
    /\ NextPlugin
    /\ UNCHANGED <<managerSide, reloadSignal, ctxDone, sub, loop, cut>>

\* The binary is missing: the supervisor notes nothing, and goes on.
StartFails ==
    /\ sup.pc = "start"
    /\ PluginFault
    /\ NextPlugin
    /\ UNCHANGED <<managerSide, reloadSignal, ctxDone, edgeState, cut>>

\* Variant: Run returns without stopping the plugins.
Shutdown_Skip ==
    /\ sup.pc = "idle"
    /\ ctxDone
    /\ sup' = Between("ended", {}, AllOff, FALSE)
    /\ UNCHANGED <<managerSide, reloadSignal, ctxDone, edgeState, cut, pluginFaults>>

\* Run sees the end of the context between two reconciles.
Shutdown ==
    /\ sup.pc = "idle"
    /\ ctxDone
    /\ sup' = Between("visit", Plugins, AllOff, TRUE)
    /\ UNCHANGED <<managerSide, reloadSignal, ctxDone, edgeState, cut, pluginFaults>>

SupervisorStep ==
    \/ Wake \/ Fetch \/ FetchFails \/ VisitEnds
    \/ \E p \in Plugins : VisitPlugin(p)
    \/ Configure \/ ConfigureFails
    \/ StopPlugin \/ StopNothing \/ StopWaited \/ StopCut
    \/ StartPlugin \/ StartFails
    \/ Shutdown

-----------------------------------------------------------------------------
(* The run loop of a plugin.  Its goroutine ends with the edge's process. *)

\* Loop s of plugin p is at pc, and goes on as l with health h.
LoopAt(p, s, pc) == sup.pc # "ended" /\ loop[p][s].pc = pc

LoopGoes(p, s, l, h) ==
    /\ loop' = [loop EXCEPT ![p][s] = l]
    /\ sub' = [sub EXCEPT ![p].health = h]
    /\ UNCHANGED <<managerSide, reloadSignal, ctxDone, sup, currentCfg, running, cut>>

LoopBegins(p, s) ==
    /\ LoopAt(p, s, "begin")
    /\ LoopGoes(p, s, [loop[p][s] EXCEPT !.pc = "spawn"], "starting")
    /\ UNCHANGED pluginFaults

\* The child is started with the configuration of the moment (cmd.Start).
Spawn(p, s) ==
    /\ LoopAt(p, s, "spawn")
    /\ ~loop[p][s].cancelled
    /\ LoopGoes(p, s, [loop[p][s] EXCEPT !.pc = "spawned",
                                         !.cfg = IF sub[p].torn THEN Off ELSE sub[p].cfg],
                sub[p].health)
    /\ UNCHANGED pluginFaults

\* The log file or the child cannot be opened, or the context is done.
SpawnFails(p, s) ==
    /\ LoopAt(p, s, "spawn")
    /\ (loop[p][s].cancelled /\ UNCHANGED pluginFaults) \/ PluginFault
    /\ LoopGoes(p, s, [loop[p][s] EXCEPT !.pc = "exited"], sub[p].health)

\* The health record says so only then, of a child that is gone again too; cmd.Wait
\* returns at once in that case.
ReportRunning(p, s) ==
    /\ \/ /\ LoopAt(p, s, "spawned")
          /\ LoopGoes(p, s, [loop[p][s] EXCEPT !.pc = "up"], "running")
       \/ /\ LoopAt(p, s, "stillborn")
          /\ LoopGoes(p, s, [loop[p][s] EXCEPT !.pc = "exited"], "running")
    /\ UNCHANGED pluginFaults

\* The child exits: it is told to, or it crashes.
ChildExits(p, s) ==
    /\ (loop[p][s].cancelled /\ UNCHANGED pluginFaults) \/ PluginFault
    /\ \/ /\ LoopAt(p, s, "spawned")
          /\ LoopGoes(p, s, [loop[p][s] EXCEPT !.pc = "stillborn", !.cfg = Off], sub[p].health)
       \/ /\ LoopAt(p, s, "up")
          /\ LoopGoes(p, s, [loop[p][s] EXCEPT !.pc = "exited", !.cfg = Off], sub[p].health)

\* Variant: a loop that ends reports nothing.
RunReturns_Silent(p, s) ==
    /\ LoopAt(p, s, "exited")
    /\ IF ~sub[p].wantRunning \/ loop[p][s].cancelled
         THEN LoopGoes(p, s, Gone, sub[p].health)
         ELSE LoopGoes(p, s, [loop[p][s] EXCEPT !.pc = "backoff"], "crashed")
    /\ UNCHANGED pluginFaults

\* A child that is wanted no more ends the loop, another is a crash.
RunReturns(p, s) ==
    /\ LoopAt(p, s, "exited")
    /\ IF ~sub[p].wantRunning \/ loop[p][s].cancelled
         THEN LoopGoes(p, s, Gone, "stopped")
         ELSE LoopGoes(p, s, [loop[p][s] EXCEPT !.pc = "backoff"], "crashed")
    /\ UNCHANGED pluginFaults

\* The backoff ends by its timer, or by the context.
BackoffEnds(p, s) ==
    /\ LoopAt(p, s, "backoff")
    /\ \/ LoopGoes(p, s, [loop[p][s] EXCEPT !.pc = "begin"], sub[p].health)
       \/ loop[p][s].cancelled /\ LoopGoes(p, s, Gone, "stopped")
    /\ UNCHANGED pluginFaults

RunLoopStep(p) ==
    \E s \in Slots :
        \/ LoopBegins(p, s) \/ Spawn(p, s) \/ SpawnFails(p, s) \/ ReportRunning(p, s)
        \/ ChildExits(p, s) \/ RunReturns(p, s) \/ BackoffEnds(p, s)

PluginNext ==
    \/ \E p \in Plugins, c \in Configs \cup {Off} : SetConfig(p, c)
    \/ EdgeQuits
    \/ SupervisorStep
    \/ \E p \in Plugins : RunLoopStep(p)

PluginSpec == PluginInit /\ [][PluginNext]_pluginVars

\* The edge runs its goroutines, the ticker among them, and a child that is told
\* to stop exits, by SIGKILL at the latest.
PluginFairSpec ==
    /\ PluginSpec
    /\ WF_pluginVars(SupervisorStep)
    /\ WF_pluginVars(\E p \in Plugins : RunLoopStep(p))

-----------------------------------------------------------------------------
(* Properties *)

\* The run loops of p that have a child.
Child(p) == {s \in Slots : loop[p][s].pc \in {"spawned", "up"}}

\* A plugin has one child process at a time, through crashes, restarts and new
\* configurations, as long as no Stop gave up on one.
OneChild == \A p \in Plugins \ cut : Cardinality(Child(p)) <= 1

\* The heartbeat reports a plugin that has a child as starting or running, and as
\* running from the moment the run loop waits for the child; it reports running
\* only then or until the run loop has seen the child's exit.  A Stop that gave up
\* leaves two loops that write one record.
HealthHonest ==
    \A p \in Plugins \ cut :
        /\ Child(p) # {} => sub[p].health \in {"starting", "running"}
        /\ (\E s \in Slots : loop[p][s].pc = "up") => sub[p].health = "running"
        /\ sub[p].health = "running" => \E s \in Slots : loop[p][s].pc \in {"up", "exited"}

\* An edge that has shut down leaves no child behind, unless a Stop gave up on it.
NoChildLeft == sup.pc = "ended" => \A p \in Plugins \ cut : Child(p) = {}

\* The plugin runs as the manager wants it.
Applied(p) ==
    IF desired[p] = Off
      THEN Child(p) = {} /\ p \notin running
      ELSE \E s \in Child(p) : loop[p][s].cfg = desired[p]

\* The manager went back to the configuration the supervisor has on record, after
\* another one failed: its Start, when the plugin had been stopped for it, or
\* its Configure, with the file torn.  The supervisor finds nothing to do.
WentBack(p) ==
    /\ p \in running
    /\ currentCfg[p] = desired[p]
    /\ sub[p].torn \/ (~sub[p].wantRunning /\ sub[p].cfg # desired[p])

\* When changes and faults are over, each plugin comes to run as the manager
\* wants it, lost notifications and failed starts included; a configuration that
\* goes back to the one before a failure is the exception.  An edge whose context
\* has ended comes to its end.
ConfigApplied ==
    <>[](IF ctxDone THEN sup.pc = "ended"
                    ELSE \A p \in Plugins : Applied(p) \/ WentBack(p))

\* While nobody changes a configuration, no plugin that was started is stopped
\* before the edge quits, outages of the manager included ("so a partition
\* between edge and manager doesn't kill already-configured plugins").
OutageKeepsPlugins ==
    [][sets = 0 /\ ~ctxDone =>
          \A p \in Plugins : sub[p].wantRunning => sub'[p].wantRunning]_pluginVars
=============================================================================
