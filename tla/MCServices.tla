----------------------------- MODULE MCServices -----------------------------
(***************************************************************************)
(* Finite instances of the manager's services: the executors of approved   *)
(* recoveries, the incident loop, the workflow engine, the cron scheduler, *)
(* the alert evaluators, the notification retries, the investigations and  *)
(* the chat turns; and the plugins of an edge.                             *)
(* They share no state the models keep, so a behaviour is one of one       *)
(* service: which one is chosen at the start, and the others stand still.  *)
(***************************************************************************)
EXTENDS RecoveryExecution, LoopOrchestrator, FlowEngine, CronScheduler, AlertIncidents,
        AlertDelivery, Investigator, ChatTurns, EdgePlugins

CONSTANTS x1, x2, c1, c2, i1, i2, m1, m2

VARIABLE service    \* the service that runs

Services == {"recovery", "loop", "flow", "cron", "alert", "delivery", "chat", "edge",
             "investigator"}

serviceVars == <<service, recoveryVars, loopVars, flowVars, cronVars, alertVars, deliveryVars,
                 chatVars, pluginVars, invVars>>

-----------------------------------------------------------------------------
(* Values of the constants.                                                *)

\* Two calls on one manager, or on two.
MCHomes == {[c \in Calls |-> i1], [c \in Calls |-> IF c = c1 THEN i1 ELSE i2]}

Request(f, s, k) == [from |-> f, stop |-> s, key |-> k]

\* A whole loop under an idempotency key, and an investigation only.
MCRequests == {Request("detected", "none", "k1"),
               Request("investigated", "investigated", "none")}

\* The LLM workers, and the workers of the tests with a gate and an approval.
MCWirings == {[llm |-> TRUE, gate |-> FALSE, approval |-> FALSE],
              [llm |-> FALSE, gate |-> TRUE, approval |-> TRUE]}

Edge(s, p, t) == [source |-> s, port |-> p, target |-> t]

Entry(n, t) == [node |-> n, type |-> t]

\* Two branches that meet again, one with an error edge.
Diamond ==
    [triggers |-> {Entry("t", "manual")},
     ports    |-> [n \in FlowNodes |-> {"next"}],
     edges    |-> {Edge("t", "next", "a"), Edge("t", "next", "b"), Edge("a", "next", "c"),
                   Edge("b", "next", "c"), Edge("a", "error", "h")}]

\* Triggers of two types that lead to one condition.
Condition ==
    [triggers |-> {Entry("t", "manual"), Entry("a", "alert"), Entry("h", "alert")},
     ports    |-> [n \in FlowNodes |-> IF n = "b" THEN {"true", "false"} ELSE {"next"}],
     edges    |-> {Edge("t", "next", "b"), Edge("a", "next", "b"), Edge("h", "next", "b"),
                   Edge("b", "true", "c")}]

MCFlowGraphs == {Diamond, Condition}

\* The edge's environment enables no plugin; the manager has one enabled.
MCEnvSnapshots == {AllOff}
MCDesired == [p \in Plugins |-> "cfg1"]

\* A cron spec "every p ticks".
MCNextAfter(p, t) == (t \div p + 1) * p

-----------------------------------------------------------------------------

\* A service that stands still does so in one initial state.
ServicesInit ==
    /\ service \in Services
    /\ RecoveryInit /\ LoopInit /\ FlowInit /\ CronInit /\ AlertInit /\ DeliveryInit
    /\ ChatInit /\ PluginInit /\ InvInit
    /\ service # "loop" => /\ wiring = CHOOSE w \in Wirings : TRUE
                           /\ home = CHOOSE h \in Homes : TRUE
    /\ service # "flow" => graph = Diamond
    /\ service # "cron" => flow = [f \in Flows |-> [enabled |-> TRUE,
                                                    period |-> CHOOSE p \in Periods : TRUE]]
    /\ desired = IF service = "edge" THEN MCDesired ELSE AllOff

\* Service s takes a step, the others stand still.
Alone(s) ==
    /\ UNCHANGED service
    /\ IF s = "recovery" THEN TRUE ELSE UNCHANGED recoveryVars
    /\ IF s = "loop"     THEN TRUE ELSE UNCHANGED loopVars
    /\ IF s = "flow"     THEN TRUE ELSE UNCHANGED flowVars
    /\ IF s = "cron"     THEN TRUE ELSE UNCHANGED cronVars
    /\ IF s = "alert"    THEN TRUE ELSE UNCHANGED alertVars
    /\ IF s = "delivery" THEN TRUE ELSE UNCHANGED deliveryVars
    /\ IF s = "chat"     THEN TRUE ELSE UNCHANGED chatVars
    /\ IF s = "edge"     THEN TRUE ELSE UNCHANGED pluginVars
    /\ IF s = "investigator" THEN TRUE ELSE UNCHANGED invVars

ServicesNext ==
    \/ service = "recovery" /\ RecoveryNext /\ Alone("recovery")
    \/ service = "loop"     /\ LoopNext     /\ Alone("loop")
    \/ service = "flow"     /\ FlowNext     /\ Alone("flow")
    \/ service = "cron"     /\ CronNext     /\ Alone("cron")
    \/ service = "alert"    /\ AlertNext    /\ Alone("alert")
    \/ service = "delivery" /\ DeliveryNext /\ Alone("delivery")
    \/ service = "chat"     /\ ChatNext     /\ Alone("chat")
    \/ service = "edge"     /\ PluginNext   /\ Alone("edge")
    \/ service = "investigator" /\ InvNext  /\ Alone("investigator")

ServicesSpec == ServicesInit /\ [][ServicesNext]_serviceVars

\* The variables of the service that runs.
activeVars ==
    CASE service = "recovery" -> recoveryVars
      [] service = "loop"     -> loopVars
      [] service = "flow"     -> flowVars
      [] service = "cron"     -> cronVars
      [] service = "alert"    -> alertVars
      [] service = "delivery" -> deliveryVars
      [] service = "chat"     -> chatVars
      [] service = "edge"     -> pluginVars
      [] service = "investigator" -> invVars

Runs(s) == service = s /\ UNCHANGED service

\* What the first actor of a service does, or all of them where the service's
\* module states fairness of them together.
FirstProceeds ==
    \/ Runs("recovery") /\ ExecutorProceeds(x1)
    \/ Runs("loop")     /\ \E c \in Calls : CallStep(c)
    \/ Runs("flow")     /\ FlowProceeds
    \/ Runs("cron")     /\ ManagerProceeds(m1)
    \/ Runs("alert")    /\ EvalStep(m1)
    \/ Runs("delivery") /\ WorkerStep(m1)
    \/ Runs("chat")     /\ ChatProceeds
    \/ Runs("edge")     /\ SupervisorStep
    \/ Runs("investigator") /\ InvProceeds

SecondProceeds ==
    \/ Runs("recovery") /\ ExecutorProceeds(x2)
    \/ Runs("cron")     /\ ManagerProceeds(m2)
    \/ Runs("alert")    /\ EvalStep(m2)
    \/ Runs("delivery") /\ WorkerStep(m2)
    \/ Runs("edge")     /\ \E p \in Plugins : RunLoopStep(p)

\* A third actor: the loop of a cron manager that lost the key, the first attempt
\* of a delivery and its backoff.
ThirdProceeds ==
    \/ Runs("cron")     /\ WorkerCancel(m1)
    \/ Runs("delivery") /\ (FirstStep \/ Ages)

FourthProceeds == Runs("cron") /\ WorkerCancel(m2)

\* The fairness each module states for its service; the service that runs is
\* the only one with a step in any of these.
ServicesFairSpec ==
    /\ ServicesSpec
    /\ WF_activeVars(FirstProceeds)
    /\ WF_activeVars(SecondProceeds)
    /\ WF_activeVars(ThirdProceeds)
    /\ WF_activeVars(FourthProceeds)
=============================================================================
