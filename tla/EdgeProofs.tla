----------------------------- MODULE EdgeProofs -----------------------------
(***************************************************************************)
(* Proofs about EdgePlugins, for any set of plugins, any configurations    *)
(* and any number of changes and faults.                                   *)
(***************************************************************************)
EXTENDS EdgePlugins, FiniteSetTheorems, TLAPS

\* A run loop that has not ended.
LiveLoop == [pc : {"begin", "spawn", "spawned", "stillborn", "up", "exited", "backoff"},
             cancelled : BOOLEAN, cfg : Configs \cup {Off}]

Healths == {"stopped", "starting", "running", "crashed"}

\* What the record of a plugin may name as its loop: the first of some free slots.
SlotNames == {0} \cup {Min(S) : S \in SUBSET Slots}

SubState == [cfg : Configs \cup {Off}, torn : BOOLEAN, wantRunning : BOOLEAN, health : Healths,
             loop : SlotNames]

\* The types the argument needs.
PluginTyped ==
    /\ ctxDone \in BOOLEAN
    /\ desired \in Snapshots
    /\ envSnapshot \in Snapshots
    /\ sup \in [pc : {"idle", "fetch", "visit", "configure", "stop", "wait", "start", "ended"},
                at : Plugins \cup {NoPlugin}, todo : SUBSET Plugins, snapshot : Snapshots,
                closing : BOOLEAN]
    /\ IF sup.pc \in {"configure", "stop", "wait", "start"} THEN sup.at \in Plugins
                                                            ELSE sup.at = NoPlugin
    /\ sup.closing => sup.pc \in {"visit", "stop", "wait"}
    /\ running \subseteq Plugins
    /\ sub \in [Plugins -> SubState]
    /\ loop \in [Plugins -> [Slots -> LiveLoop \cup {Gone}]]

Waits(p) == sup.pc = "wait" /\ sup.at = p

\* The loop of a plugin is the one its record names, and it is there only while
\* the plugin is wanted or a Stop waits for it.  A plugin that is about to be
\* started, that a Stop waits for or that the supervisor has not started is not
\* wanted.
OneLoop(p) ==
    /\ \A s \in Slots : loop[p][s] # Gone => s = sub[p].loop /\ (sub[p].wantRunning \/ Waits(p))
    /\ p \notin running => ~sub[p].wantRunning
    /\ sup.pc \in {"start", "wait"} /\ sup.at = p => ~sub[p].wantRunning

\* A plugin that shutdown has done with has no loop.
ShutDown(p) ==
    sup.pc = "ended" \/ (sup.closing /\ p \notin sup.todo /\ p # sup.at) =>
        \A s \in Slots : loop[p][s] = Gone

LoopsInv == \A p \in Plugins \ cut : OneLoop(p) /\ ShutDown(p)

\* The health a loop leaves behind at each of its steps: the record says "starting"
\* from the begin of a run to its report, and is not "running" in the backoff.
Fits(pc, h) ==
    /\ pc \in {"spawn", "spawned", "stillborn"} => h = "starting"
    /\ pc = "up" => h = "running"
    /\ h = "running" => pc \in {"up", "exited"}

\* The health record of a plugin fits its loop; without one it is not "running".
HealthInv ==
    \A p \in Plugins \ cut :
        /\ \A s \in Slots : loop[p][s] # Gone => Fits(loop[p][s].pc, sub[p].health)
        /\ (\A s \in Slots : loop[p][s] = Gone) => sub[p].health # "running"

PluginInv == PluginTyped /\ LoopsInv /\ HealthInv
-----------------------------------------------------------------------------

\* A loop that has ended is told from one that has not by its pc.
LEMMA GoneFact ==
    /\ Gone \notin LiveLoop
    /\ Gone.pc = "gone" /\ Gone.cancelled = FALSE /\ Gone.cfg = Off
    /\ \A l \in LiveLoop : l.pc # "gone" /\ l # Gone
BY DEF Gone, LiveLoop

\* Of slots that are all free the first is taken.
LEMMA FirstSlot ==
    ASSUME NEW p, \A x \in Slots : loop[p][x] = Gone
    PROVE  Min({x \in Slots : loop[p][x] = Gone}) = 0 /\ 0 \in Slots
<1>1. 0 \in Slots /\ {x \in Slots : loop[p][x] = Gone} = Slots
  BY PluginAssumption DEF Slots
<1>2. /\ 0 \in Slots /\ \A y \in Slots : 0 =< y
      /\ \A x \in Slots : (\A y \in Slots : x =< y) => x = 0
  BY PluginAssumption DEF Slots
<1> HIDE DEF Slots
<1>3. Min(Slots) = 0
  BY <1>2, Zenon DEF Min
<1> QED
  BY <1>1, <1>3, Zenon

\* A field of a plugin's record is written.
LEMMA SubFields ==
    ASSUME NEW r \in SubState
    PROVE  /\ r.cfg \in Configs \cup {Off} /\ r.wantRunning \in BOOLEAN /\ r.health \in Healths
           /\ \A c \in Configs \cup {Off}, b \in BOOLEAN :
                [r EXCEPT !.cfg = c, !.torn = b] \in SubState
           /\ [r EXCEPT !.torn = TRUE] \in SubState
           /\ \A w \in BOOLEAN : [r EXCEPT !.wantRunning = w] \in SubState
           /\ \A h \in Healths : [r EXCEPT !.health = h] \in SubState
           /\ \A w \in BOOLEAN, x \in SlotNames :
                [r EXCEPT !.wantRunning = w, !.loop = x] \in SubState
BY Zenon DEF SubState

\* A slot of a plugin is written, if it is one.
LEMMA LoopSlot ==
    ASSUME NEW p \in Plugins, NEW s, NEW l, loop \in [Plugins -> [Slots -> LiveLoop \cup {Gone}]],
           s \in Slots => l \in LiveLoop \cup {Gone}
    PROVE  [loop EXCEPT ![p][s] = l] \in [Plugins -> [Slots -> LiveLoop \cup {Gone}]]
<1>1. [loop[p] EXCEPT ![s] = l] \in [Slots -> LiveLoop \cup {Gone}]
  BY Zenon
<1> QED
  BY <1>1, Zenon

\* A loop that is at some step is one that has not ended.
LEMMA LoopAtFact ==
    ASSUME PluginTyped, NEW p \in Plugins, NEW s \in Slots, loop[p][s].pc # "gone"
    PROVE  /\ loop[p][s] \in LiveLoop /\ loop[p][s] # Gone
           /\ sub[p].health \in Healths /\ sub[p].cfg \in Configs \cup {Off}
<1>1. loop[p][s] \in LiveLoop /\ loop[p][s] # Gone
  BY GoneFact DEF PluginTyped
<1>2. sub[p] \in SubState
  BY Zenon DEF PluginTyped
<1> QED
  BY <1>1, <1>2, SubFields, Zenon

\* A step of a run loop keeps the types if what it writes has them.
LEMMA LoopGoesTyped ==
    ASSUME PluginTyped, NEW p \in Plugins, NEW s \in Slots, NEW l \in LiveLoop \cup {Gone},
           NEW h \in Healths, LoopGoes(p, s, l, h)
    PROVE  PluginTyped'
<1>1. loop' \in [Plugins -> [Slots -> LiveLoop \cup {Gone}]]
  BY LoopSlot, Zenon DEF PluginTyped, LoopGoes
<1>2. sub' \in [Plugins -> SubState]
  BY SubFields, Zenon DEF PluginTyped, LoopGoes
<1> QED
  BY <1>1, <1>2, Zenon DEF PluginTyped, LoopGoes, managerSide

\* The end of a Stop keeps the types.
LEMMA AfterStopTyped ==
    ASSUME PluginTyped, sup.pc \in {"stop", "wait"}, AfterStop,
           UNCHANGED <<managerSide, ctxDone, sub, loop>>
    PROVE  PluginTyped'
<1>1. running' \subseteq Plugins
  BY Zenon DEF PluginTyped, AfterStop
<1>2. \/ sup' = [sup EXCEPT !.pc = "visit", !.at = NoPlugin]
      \/ ~sup.closing /\ sup' = [sup EXCEPT !.pc = "start"]
  BY Zenon DEF PluginTyped, AfterStop, NextPlugin
<1> QED
  BY <1>1, <1>2, Zenon DEF PluginTyped, managerSide

\* Every step keeps the types.
LEMMA PluginTypedKept ==
    ASSUME PluginTyped, [PluginNext]_pluginVars PROVE PluginTyped'
<1> USE PluginAssumption, GoneFact DEF managerSide, edgeState
<1>1. CASE UNCHANGED pluginVars
  BY <1>1, Zenon DEF PluginTyped, Snapshots, pluginVars
<1>2. ASSUME NEW p \in Plugins, NEW c \in Configs \cup {Off}, SetConfig(p, c) PROVE PluginTyped'
  BY <1>2, Zenon DEF PluginTyped, Snapshots, SetConfig
<1>3. ASSUME EdgeQuits PROVE PluginTyped'
  <2>1. ASSUME NEW p \in Plugins, NEW s \in Slots
        PROVE  (IF loop[p][s] = Gone THEN Gone ELSE [loop[p][s] EXCEPT !.cancelled = TRUE])
                 \in LiveLoop \cup {Gone}
    <3>1. loop[p][s] \in LiveLoop \cup {Gone}
      BY DEF PluginTyped
    <3> QED
      BY <3>1, Zenon DEF LiveLoop
  <2> QED
    BY <1>3, <2>1, Zenon DEF PluginTyped, EdgeQuits
<1>4. ASSUME Wake PROVE PluginTyped'
  BY <1>4, Zenon DEF PluginTyped, Snapshots, Wake, PluginFault
<1>5. ASSUME Fetch PROVE PluginTyped'
  BY <1>5, Zenon DEF PluginTyped, Snapshots, Fetch, Between
<1>6. ASSUME FetchFails PROVE PluginTyped'
  BY <1>6, Zenon DEF PluginTyped, Snapshots, FetchFails, PluginFault, Between
<1>7. ASSUME VisitEnds PROVE PluginTyped'
  BY <1>7, Zenon DEF PluginTyped, Snapshots, VisitEnds, Between, AllOff
<1>8. ASSUME NEW p \in Plugins, VisitPlugin(p) PROVE PluginTyped'
  BY <1>8, Zenon DEF PluginTyped, Snapshots, VisitPlugin, Changed
<1>9. ASSUME Configure PROVE PluginTyped'
  <2>1. sup.at \in Plugins /\ sup.snapshot[sup.at] \in Configs \cup {Off}
    BY <1>9, Zenon DEF PluginTyped, Snapshots, Configure
  <2> QED
    BY <1>9, <2>1, SubFields, Zenon DEF PluginTyped, Configure
<1>10. ASSUME ConfigureFails PROVE PluginTyped'
  <2>1. sup.at \in Plugins
    BY <1>10, Zenon DEF PluginTyped, ConfigureFails
  <2>2. sub' \in [Plugins -> SubState]
    <3>1. sub' = sub \/ sub' = [sub EXCEPT ![sup.at].torn = TRUE]
      BY <1>10 DEF ConfigureFails
    <3>2. [sub[sup.at] EXCEPT !.torn = TRUE] \in SubState
      BY <2>1, SubFields, Zenon DEF PluginTyped
    <3> QED
      BY <2>1, <3>1, <3>2, ZenonT(30) DEF PluginTyped
  <2> QED
    BY <1>10, <2>2, Zenon DEF PluginTyped, Snapshots, ConfigureFails, PluginFault, NextPlugin
<1>11. ASSUME StopPlugin PROVE PluginTyped'
  <2> DEFINE p == sup.at
             l == loop[p][sub[p].loop]
  <2>1. p \in Plugins
    BY <1>11, Zenon DEF PluginTyped, StopPlugin
  <2>2. sub[p].loop \in Slots =>
          (IF l = Gone THEN Gone ELSE [l EXCEPT !.cancelled = TRUE]) \in LiveLoop \cup {Gone}
    <3>1. sub[p].loop \in Slots => l \in LiveLoop \cup {Gone}
      BY <2>1 DEF PluginTyped
    <3> QED
      BY <3>1, Zenon DEF LiveLoop
  <2>3. loop' \in [Plugins -> [Slots -> LiveLoop \cup {Gone}]]
    BY <1>11, <2>1, <2>2, LoopSlot, Zenon DEF PluginTyped, StopPlugin
  <2>4. sub' \in [Plugins -> SubState]
    BY <1>11, <2>1, SubFields, Zenon DEF PluginTyped, StopPlugin
  <2> QED
    BY <1>11, <2>1, <2>3, <2>4, Zenon DEF PluginTyped, StopPlugin
<1>12. ASSUME StopNothing PROVE PluginTyped'
  BY <1>12, AfterStopTyped, Zenon DEF StopNothing
<1>13. ASSUME StopWaited PROVE PluginTyped'
  BY <1>13, AfterStopTyped, Zenon DEF StopWaited
<1>14. ASSUME StopCut PROVE PluginTyped'
  BY <1>14, AfterStopTyped, Zenon DEF StopCut
<1>15. ASSUME StartPlugin PROVE PluginTyped'
  <2> DEFINE p == sup.at
             s == Min({x \in Slots : loop[p][x] = Gone})
             l == [Gone EXCEPT !.pc = "begin", !.cancelled = ctxDone]
  <2>1. p \in Plugins /\ s \in SlotNames
    BY <1>15, Zenon DEF PluginTyped, StartPlugin, SlotNames
  <2>2. l \in LiveLoop
    BY Zenon DEF PluginTyped, LiveLoop, Gone
  <2>3. loop' \in [Plugins -> [Slots -> LiveLoop \cup {Gone}]]
    <3> HIDE DEF l, s
    <3>1. loop' = [loop EXCEPT ![p][s] = l]
      BY <1>15, Zenon DEF StartPlugin, l, s
    <3> QED
      BY <2>1, <2>2, <3>1, LoopSlot, Zenon DEF PluginTyped
  <2>4. sub' \in [Plugins -> SubState]
    <3> HIDE DEF s
    <3>1. sub' = [sub EXCEPT ![p].wantRunning = TRUE, ![p].loop = s]
      BY <1>15, Zenon DEF StartPlugin, s
    <3> QED
      BY <2>1, <3>1, SubFields, Zenon DEF PluginTyped
  <2> QED
    BY <1>15, <2>1, <2>3, <2>4, Zenon DEF PluginTyped, StartPlugin, NextPlugin
<1>16. ASSUME StartFails PROVE PluginTyped'
  BY <1>16, Zenon DEF PluginTyped, Snapshots, StartFails, PluginFault, NextPlugin
<1>17. ASSUME Shutdown PROVE PluginTyped'
  BY <1>17, Zenon DEF PluginTyped, Snapshots, Shutdown, Between, AllOff
<1>18. ASSUME NEW p \in Plugins, NEW s \in Slots, LoopBegins(p, s) PROVE PluginTyped'
  <2>1. loop[p][s] \in LiveLoop /\ sub[p].health \in Healths /\ sub[p].cfg \in Configs \cup {Off}
    BY <1>18, LoopAtFact, Zenon DEF LoopBegins, LoopAt
  <2>2. PICK l \in LiveLoop \cup {Gone}, h \in Healths : LoopGoes(p, s, l, h)
    BY <1>18, <2>1, Zenon DEF LoopBegins, LiveLoop, Healths
  <2> QED
    BY <2>2, LoopGoesTyped, Zenon
<1>19. ASSUME NEW p \in Plugins, NEW s \in Slots, Spawn(p, s) PROVE PluginTyped'
  <2>1. loop[p][s] \in LiveLoop /\ sub[p].health \in Healths /\ sub[p].cfg \in Configs \cup {Off}
    BY <1>19, LoopAtFact, Zenon DEF Spawn, LoopAt
  <2>2. PICK l \in LiveLoop \cup {Gone}, h \in Healths : LoopGoes(p, s, l, h)
    <3> DEFINE c == IF sub[p].torn THEN Off ELSE sub[p].cfg
    <3>1. c \in Configs \cup {Off}
      BY <2>1, Zenon
    <3>2. LoopGoes(p, s, [loop[p][s] EXCEPT !.pc = "spawned", !.cfg = c], sub[p].health)
      BY <1>19, Zenon DEF Spawn
    <3> HIDE DEF c
    <3> QED
      BY <2>1, <3>1, <3>2, Zenon DEF LiveLoop
  <2> QED
    BY <2>2, LoopGoesTyped
<1>20. ASSUME NEW p \in Plugins, NEW s \in Slots, SpawnFails(p, s) PROVE PluginTyped'
  <2>1. loop[p][s] \in LiveLoop /\ sub[p].health \in Healths /\ sub[p].cfg \in Configs \cup {Off}
    BY <1>20, LoopAtFact, Zenon DEF SpawnFails, LoopAt
  <2>2. PICK l \in LiveLoop \cup {Gone}, h \in Healths : LoopGoes(p, s, l, h)
    BY <1>20, <2>1 DEF SpawnFails, LiveLoop, Healths
  <2> QED
    BY <2>2, LoopGoesTyped
<1>21. ASSUME NEW p \in Plugins, NEW s \in Slots, ReportRunning(p, s) PROVE PluginTyped'
  <2>1. loop[p][s] \in LiveLoop /\ sub[p].health \in Healths /\ sub[p].cfg \in Configs \cup {Off}
    BY <1>21, LoopAtFact, Zenon DEF ReportRunning, LoopAt
  <2>2. PICK l \in LiveLoop \cup {Gone}, h \in Healths : LoopGoes(p, s, l, h)
    BY <1>21, <2>1 DEF ReportRunning, LiveLoop, Healths
  <2> QED
    BY <2>2, LoopGoesTyped
<1>22. ASSUME NEW p \in Plugins, NEW s \in Slots, ChildExits(p, s) PROVE PluginTyped'
  <2>1. loop[p][s] \in LiveLoop /\ sub[p].health \in Healths /\ sub[p].cfg \in Configs \cup {Off}
    BY <1>22, LoopAtFact, Zenon DEF ChildExits, LoopAt
  <2>2. PICK l \in LiveLoop \cup {Gone}, h \in Healths : LoopGoes(p, s, l, h)
    <3>1. CASE loop[p][s].pc = "spawned"
      <4>1. [loop[p][s] EXCEPT !.pc = "stillborn", !.cfg = Off] \in LiveLoop
        BY <2>1 DEF LiveLoop
      <4> QED
        BY <1>22, <2>1, <3>1, <4>1, Zenon DEF ChildExits, LoopAt
    <3>2. CASE loop[p][s].pc = "up"
      <4>1. [loop[p][s] EXCEPT !.pc = "exited", !.cfg = Off] \in LiveLoop
        BY <2>1 DEF LiveLoop
      <4> QED
        BY <1>22, <2>1, <3>2, <4>1, Zenon DEF ChildExits, LoopAt
    <3> QED
      BY <1>22, <3>1, <3>2, Zenon DEF ChildExits, LoopAt
  <2> QED
    BY <2>2, LoopGoesTyped
<1>23. ASSUME NEW p \in Plugins, NEW s \in Slots, RunReturns(p, s) PROVE PluginTyped'
  <2>1. loop[p][s] \in LiveLoop /\ sub[p].health \in Healths /\ sub[p].cfg \in Configs \cup {Off}
    BY <1>23, LoopAtFact, Zenon DEF RunReturns, LoopAt
  <2>2. PICK l \in LiveLoop \cup {Gone}, h \in Healths : LoopGoes(p, s, l, h)
    BY <1>23, <2>1, Zenon DEF RunReturns, LiveLoop, Healths
  <2> QED
    BY <2>2, LoopGoesTyped
<1>24. ASSUME NEW p \in Plugins, NEW s \in Slots, BackoffEnds(p, s) PROVE PluginTyped'
  <2>1. loop[p][s] \in LiveLoop /\ sub[p].health \in Healths /\ sub[p].cfg \in Configs \cup {Off}
    BY <1>24, LoopAtFact, Zenon DEF BackoffEnds, LoopAt
  <2>2. PICK l \in LiveLoop \cup {Gone}, h \in Healths : LoopGoes(p, s, l, h)
    BY <1>24, <2>1 DEF BackoffEnds, LiveLoop, Healths
  <2> QED
    BY <2>2, LoopGoesTyped
<1> QED
  BY <1>1, <1>2, <1>3, <1>4, <1>5, <1>6, <1>7, <1>8, <1>9, <1>10, <1>11, <1>12, <1>13, <1>14,
      <1>15, <1>16, <1>17, <1>18, <1>19, <1>20, <1>21, <1>22, <1>23, <1>24, Zenon
      DEF PluginNext, SupervisorStep, RunLoopStep

\* A plugin whose loops have all ended when its Stop does, and that is not wanted,
\* keeps what is asked of it; the others are not touched.
LEMMA AfterStopLoops ==
    ASSUME PluginTyped, LoopsInv, sup.pc \in {"stop", "wait"}, AfterStop,
           UNCHANGED <<sub, loop>>, cut \subseteq cut',
           sup.at \in cut' \/ (~sub[sup.at].wantRunning /\ \A s \in Slots : loop[sup.at][s] = Gone)
    PROVE  LoopsInv'
<1>1. \/ sup' = [sup EXCEPT !.pc = "visit", !.at = NoPlugin]
      \/ ~sup.closing /\ sup' = [sup EXCEPT !.pc = "start"]
  BY Zenon DEF AfterStop, NextPlugin
<1>2. running' = running \/ running' = running \ {sup.at}
  BY Zenon DEF AfterStop
<1> SUFFICES ASSUME NEW p \in Plugins, p \notin cut' PROVE (OneLoop(p) /\ ShutDown(p))'
  BY Zenon DEF LoopsInv
<1>3. OneLoop(p) /\ ShutDown(p)
  BY Zenon DEF LoopsInv
<1>4. OneLoop(p)'
  <2>1. CASE p = sup.at
    BY <1>1, <2>1, PluginAssumption, Zenon DEF PluginTyped, OneLoop, Waits
  <2>2. CASE p # sup.at
    BY <1>1, <1>2, <1>3, <2>2, PluginAssumption, ZenonT(30) DEF PluginTyped, OneLoop, Waits
  <2> QED
    BY <2>1, <2>2, Zenon
<1>5. ShutDown(p)'
  BY <1>1, <1>3, Zenon DEF PluginTyped, ShutDown
<1> QED
  BY <1>4, <1>5, Zenon

\* A step of a loop that is there brings no other.
LEMMA LoopGoesLoops ==
    ASSUME PluginTyped, LoopsInv, NEW p \in Plugins, NEW s \in Slots, loop[p][s] # Gone,
           sup.pc # "ended", NEW l, NEW h, LoopGoes(p, s, l, h)
    PROVE  LoopsInv'
<1>1. \A q \in Plugins : /\ sub'[q].wantRunning = sub[q].wantRunning /\ sub'[q].loop = sub[q].loop
                         /\ \A x \in Slots : loop[q][x] = Gone => loop'[q][x] = Gone
  BY ZenonT(30) DEF PluginTyped, SubState, LoopGoes
<1> SUFFICES ASSUME NEW q \in Plugins, q \notin cut PROVE (OneLoop(q) /\ ShutDown(q))'
  BY Zenon DEF LoopsInv, LoopGoes
<1>2. OneLoop(q) /\ ShutDown(q) /\ UNCHANGED <<sup, running>>
  BY Zenon DEF LoopsInv, LoopGoes
<1> QED
  BY <1>1, <1>2, Zenon DEF OneLoop, ShutDown, Waits

\* A plugin has the loop it waits for and no other, whatever its last Stop did
\* in time.
LEMMA LoopsKept ==
    ASSUME PluginTyped, LoopsInv, [PluginNext]_pluginVars PROVE LoopsInv'
<1> USE PluginAssumption, GoneFact DEF managerSide, edgeState
<1>1. CASE UNCHANGED pluginVars
  BY <1>1 DEF PluginTyped, LoopsInv, OneLoop, ShutDown, Waits, SubState, pluginVars
<1>2. ASSUME NEW p \in Plugins, NEW c \in Configs \cup {Off}, SetConfig(p, c) PROVE LoopsInv'
  BY <1>2 DEF PluginTyped, LoopsInv, OneLoop, ShutDown, Waits, SubState, SetConfig
<1>3. ASSUME EdgeQuits PROVE LoopsInv'
  BY <1>3 DEF PluginTyped, LoopsInv, OneLoop, ShutDown, Waits, SubState, EdgeQuits
<1>4. ASSUME Wake PROVE LoopsInv'
  BY <1>4 DEF PluginTyped, LoopsInv, OneLoop, ShutDown, Waits, SubState, Wake, PluginFault
<1>5. ASSUME Fetch PROVE LoopsInv'
  BY <1>5 DEF PluginTyped, LoopsInv, OneLoop, ShutDown, Waits, SubState, Fetch, Between
<1>6. ASSUME FetchFails PROVE LoopsInv'
  BY <1>6 DEF PluginTyped, LoopsInv, OneLoop, ShutDown, Waits, SubState, FetchFails, PluginFault,
      Between
<1>7. ASSUME VisitEnds PROVE LoopsInv'
  BY <1>7, SMTT(30) DEF PluginTyped, LoopsInv, OneLoop, ShutDown, Waits, SubState, VisitEnds,
         Between, AllOff
<1>8. ASSUME NEW p \in Plugins, VisitPlugin(p) PROVE LoopsInv'
  <2>1. \/ ~sup.closing /\ sup' = [sup EXCEPT !.pc = "configure", !.todo = @ \ {p}, !.at = p]
        \/ ~sup.closing /\ p \notin running
             /\ sup' = [sup EXCEPT !.pc = "start", !.todo = @ \ {p}, !.at = p]
        \/ sup' = [sup EXCEPT !.pc = "stop", !.todo = @ \ {p}, !.at = p]
        \/ ~sup.closing /\ sup' = [sup EXCEPT !.pc = "visit", !.todo = @ \ {p}, !.at = NoPlugin]
    BY <1>8, Zenon DEF PluginTyped, VisitPlugin
  <2> QED
    BY <1>8, <2>1 DEF PluginTyped, LoopsInv, OneLoop, ShutDown, Waits, VisitPlugin
<1>9. ASSUME Configure PROVE LoopsInv'
  BY <1>9 DEF PluginTyped, LoopsInv, OneLoop, ShutDown, Waits, SubState, Configure
<1>10. ASSUME ConfigureFails PROVE LoopsInv'
  BY <1>10, SMTT(30) DEF PluginTyped, LoopsInv, OneLoop, ShutDown, Waits, SubState, ConfigureFails,
      PluginFault, NextPlugin
<1>11. ASSUME StopPlugin PROVE LoopsInv'
  BY <1>11 DEF PluginTyped, LoopsInv, OneLoop, ShutDown, Waits, SubState, StopPlugin
<1>12. ASSUME StopNothing PROVE LoopsInv'
  <2>1. sup.at \in cut \/ \A s \in Slots : loop[sup.at][s] = Gone
    BY <1>12, Zenon DEF PluginTyped, LoopsInv, OneLoop, Waits, StopNothing
  <2> QED
    BY <1>12, <2>1, AfterStopLoops, Zenon DEF StopNothing
<1>13. ASSUME StopWaited PROVE LoopsInv'
  <2>1. sup.at \in cut \/ (~sub[sup.at].wantRunning /\ \A s \in Slots : loop[sup.at][s] = Gone)
    BY <1>13 DEF PluginTyped, LoopsInv, OneLoop, Waits, StopWaited
  <2> QED
    BY <1>13, <2>1, AfterStopLoops, Zenon DEF StopWaited
<1>14. ASSUME StopCut PROVE LoopsInv'
  BY <1>14, AfterStopLoops, Zenon DEF StopCut
<1>15. ASSUME StartPlugin PROVE LoopsInv'
  BY <1>15 DEF PluginTyped, LoopsInv, OneLoop, ShutDown, Waits, SubState, StartPlugin, NextPlugin
<1>16. ASSUME StartFails PROVE LoopsInv'
  BY <1>16 DEF PluginTyped, LoopsInv, OneLoop, ShutDown, Waits, SubState, StartFails, PluginFault,
      NextPlugin
<1>17. ASSUME Shutdown PROVE LoopsInv'
  BY <1>17 DEF PluginTyped, LoopsInv, OneLoop, ShutDown, Waits, SubState, Shutdown, Between, AllOff
<1>18. ASSUME NEW p \in Plugins, NEW s \in Slots, LoopBegins(p, s) PROVE LoopsInv'
  <2>1. loop[p][s] # Gone /\ sup.pc # "ended"
    BY <1>18, LoopAtFact, Zenon DEF LoopBegins, LoopAt
  <2>2. PICK l, h : LoopGoes(p, s, l, h)
    BY <1>18, Zenon DEF LoopBegins
  <2> QED
    BY <2>1, <2>2, LoopGoesLoops, Zenon
<1>19. ASSUME NEW p \in Plugins, NEW s \in Slots, Spawn(p, s) PROVE LoopsInv'
  <2>1. loop[p][s] # Gone /\ sup.pc # "ended"
    BY <1>19, LoopAtFact, Zenon DEF Spawn, LoopAt
  <2>2. PICK l, h : LoopGoes(p, s, l, h)
    BY <1>19, Zenon DEF Spawn
  <2> QED
    BY <2>1, <2>2, LoopGoesLoops
<1>20. ASSUME NEW p \in Plugins, NEW s \in Slots, SpawnFails(p, s) PROVE LoopsInv'
  <2>1. loop[p][s] # Gone /\ sup.pc # "ended"
    BY <1>20, LoopAtFact, Zenon DEF SpawnFails, LoopAt
  <2>2. PICK l, h : LoopGoes(p, s, l, h)
    BY <1>20, Zenon DEF SpawnFails
  <2> QED
    BY <2>1, <2>2, LoopGoesLoops
<1>21. ASSUME NEW p \in Plugins, NEW s \in Slots, ReportRunning(p, s) PROVE LoopsInv'
  <2>1. loop[p][s] # Gone /\ sup.pc # "ended"
    BY <1>21, LoopAtFact, Zenon DEF ReportRunning, LoopAt
  <2>2. PICK l, h : LoopGoes(p, s, l, h)
    BY <1>21, Zenon DEF ReportRunning
  <2> QED
    BY <2>1, <2>2, LoopGoesLoops
<1>22. ASSUME NEW p \in Plugins, NEW s \in Slots, ChildExits(p, s) PROVE LoopsInv'
  <2>1. loop[p][s] # Gone /\ sup.pc # "ended"
    BY <1>22, LoopAtFact, Zenon DEF ChildExits, LoopAt
  <2>2. PICK l, h : LoopGoes(p, s, l, h)
    BY <1>22, Zenon DEF ChildExits
  <2> QED
    BY <2>1, <2>2, LoopGoesLoops
<1>23. ASSUME NEW p \in Plugins, NEW s \in Slots, RunReturns(p, s) PROVE LoopsInv'
  <2>1. loop[p][s] # Gone /\ sup.pc # "ended"
    BY <1>23, LoopAtFact, Zenon DEF RunReturns, LoopAt
  <2>2. PICK l, h : LoopGoes(p, s, l, h)
    BY <1>23, Zenon DEF RunReturns
  <2> QED
    BY <2>1, <2>2, LoopGoesLoops
<1>24. ASSUME NEW p \in Plugins, NEW s \in Slots, BackoffEnds(p, s) PROVE LoopsInv'
  <2>1. loop[p][s] # Gone /\ sup.pc # "ended"
    BY <1>24, LoopAtFact, Zenon DEF BackoffEnds, LoopAt
  <2>2. PICK l, h : LoopGoes(p, s, l, h)
    BY <1>24, Zenon DEF BackoffEnds
  <2> QED
    BY <2>1, <2>2, LoopGoesLoops
<1> QED
  BY <1>1, <1>2, <1>3, <1>4, <1>5, <1>6, <1>7, <1>8, <1>9, <1>10, <1>11, <1>12, <1>13, <1>14,
      <1>15, <1>16, <1>17, <1>18, <1>19, <1>20, <1>21, <1>22, <1>23, <1>24, Zenon
      DEF PluginNext, SupervisorStep, RunLoopStep

\* The health of a plugin that has a loop fits that loop, the only one there is.
LEMMA HealthNow ==
    ASSUME HealthInv, NEW p \in Plugins, NEW s \in Slots, loop[p][s] # Gone
    PROVE  p \in cut \/ Fits(loop[p][s].pc, sub[p].health)
BY Zenon DEF HealthInv

\* A step of the one loop of a plugin writes a health that fits where it goes.
LEMMA LoopGoesHealth ==
    ASSUME PluginTyped, LoopsInv, HealthInv, NEW p \in Plugins, NEW s \in Slots,
           loop[p][s] # Gone, NEW l, NEW h, LoopGoes(p, s, l, h),
           p \in cut \/ (Fits(l.pc, h) /\ (l = Gone => h # "running"))
    PROVE  HealthInv'
<1> SUFFICES ASSUME NEW q \in Plugins, q \notin cut
             PROVE  /\ \A x \in Slots : loop'[q][x] # Gone => Fits(loop'[q][x].pc, sub'[q].health)
                    /\ (\A x \in Slots : loop'[q][x] = Gone) => sub'[q].health # "running"
  BY Zenon DEF HealthInv, LoopGoes
<1>1. CASE q = p
  <2>1. \A x \in Slots : x # s => loop'[p][x] = Gone
    BY <1>1 DEF PluginTyped, LoopsInv, OneLoop, LoopGoes
  <2>2. loop'[p][s] = l /\ sub'[p].health = h
    BY DEF PluginTyped, SubState, LoopGoes
  <2> QED
    BY <1>1, <2>1, <2>2, Zenon
<1>2. CASE q # p
  <2>1. loop'[q] = loop[q] /\ sub'[q] = sub[q]
    BY <1>2, Zenon DEF PluginTyped, LoopGoes
  <2> QED
    BY <2>1, Zenon DEF HealthInv
<1> QED
  BY <1>1, <1>2, Zenon

\* A step that writes no health and moves no loop keeps the fit.
LEMMA HealthSame ==
    ASSUME HealthInv, cut \subseteq cut', \A p \in Plugins : sub'[p].health = sub[p].health,
           \A p \in Plugins, s \in Slots : /\ loop'[p][s].pc = loop[p][s].pc
                                           /\ loop'[p][s] = Gone <=> loop[p][s] = Gone
    PROVE  HealthInv'
<1> SUFFICES ASSUME NEW p \in Plugins, p \notin cut
             PROVE  /\ \A s \in Slots : loop'[p][s] # Gone => Fits(loop'[p][s].pc, sub'[p].health)
                    /\ (\A s \in Slots : loop'[p][s] = Gone) => sub'[p].health # "running"
  BY Zenon DEF HealthInv
<1>1. /\ \A s \in Slots : loop[p][s] # Gone => Fits(loop[p][s].pc, sub[p].health)
      /\ (\A s \in Slots : loop[p][s] = Gone) => sub[p].health # "running"
  BY Zenon DEF HealthInv
<1>2. ASSUME NEW s \in Slots, loop'[p][s] # Gone PROVE Fits(loop'[p][s].pc, sub'[p].health)
  <2>1. loop[p][s] # Gone /\ loop'[p][s].pc = loop[p][s].pc /\ sub'[p].health = sub[p].health
    BY <1>2, Zenon
  <2>2. Fits(loop[p][s].pc, sub[p].health)
    BY <1>1, <2>1, Zenon
  <2> QED
    BY <2>1, <2>2
<1>3. (\A s \in Slots : loop'[p][s] = Gone) => sub'[p].health # "running"
  BY <1>1, Zenon
<1> QED
  BY <1>2, <1>3, Zenon

\* The health record follows the one loop.
LEMMA HealthKept ==
    ASSUME PluginTyped, LoopsInv, HealthInv, [PluginNext]_pluginVars PROVE HealthInv'
<1> USE DEF managerSide, edgeState
<1>1. ASSUME UNCHANGED <<sub, loop>>, cut \subseteq cut' PROVE HealthInv'
  BY <1>1, HealthSame, Zenon
<1>2. ASSUME NEW p \in Plugins, NEW c \in Configs \cup {Off}, SetConfig(p, c) PROVE HealthInv'
  BY <1>1, <1>2, Zenon DEF SetConfig
<1>3. ASSUME EdgeQuits PROVE HealthInv'
  <2>1. \A p \in Plugins, s \in Slots : loop[p][s] \in LiveLoop \cup {Gone}
    BY DEF PluginTyped
  <2>2. \A p \in Plugins, s \in Slots :
          loop'[p][s] = IF loop[p][s] = Gone THEN Gone ELSE [loop[p][s] EXCEPT !.cancelled = TRUE]
    BY <1>3, Zenon DEF EdgeQuits
  <2>3. \A l \in LiveLoop : /\ [l EXCEPT !.cancelled = TRUE].pc = l.pc
                            /\ [l EXCEPT !.cancelled = TRUE] # Gone
    BY GoneFact DEF LiveLoop
  <2>4. ASSUME NEW p \in Plugins, NEW s \in Slots
        PROVE  loop'[p][s].pc = loop[p][s].pc /\ (loop'[p][s] = Gone <=> loop[p][s] = Gone)
    <3>1. CASE loop[p][s] = Gone
      BY <2>2, <3>1, Zenon
    <3>2. CASE loop[p][s] \in LiveLoop
      <4>1. loop[p][s] # Gone
        BY <3>2, GoneFact, Zenon
      <4>2. loop'[p][s] = [loop[p][s] EXCEPT !.cancelled = TRUE]
        BY <2>2, <4>1, Zenon
      <4> QED
        BY <2>3, <3>2, <4>1, <4>2, Zenon
    <3> QED
      BY <2>1, <3>1, <3>2, Zenon
  <2> QED
    BY <1>3, <2>4, HealthSame, Zenon DEF EdgeQuits
<1>4. ASSUME \/ UNCHANGED pluginVars \/ Wake \/ Fetch \/ FetchFails \/ VisitEnds
             \/ \E p \in Plugins : VisitPlugin(p)
             \/ StopNothing \/ StopWaited \/ StopCut \/ StartFails \/ Shutdown
      PROVE  HealthInv'
  <2>1. UNCHANGED <<sub, loop>> /\ cut \subseteq cut'
    BY <1>4, Zenon DEF pluginVars, Wake, Fetch, FetchFails, VisitEnds, VisitPlugin, StopNothing,
       StopWaited, StopCut, StartFails, Shutdown
  <2> QED
    BY <1>1, <2>1, Zenon
<1>5. ASSUME Configure \/ ConfigureFails PROVE HealthInv'
  <2>1. \A p \in Plugins : sub'[p].health = sub[p].health
    <3>1. CASE Configure
      BY <3>1 DEF PluginTyped, SubState, Configure
    <3>2. CASE ConfigureFails
      BY <3>2, SMTT(30) DEF PluginTyped, SubState, ConfigureFails
    <3> QED
      BY <1>5, <3>1, <3>2, Zenon
  <2>2. loop' = loop /\ cut' = cut
    BY <1>5, Zenon DEF Configure, ConfigureFails
  <2> QED
    BY <2>1, <2>2, HealthSame, Zenon
<1>6. ASSUME StopPlugin PROVE HealthInv'
  <2>1. \A p \in Plugins, s \in Slots : /\ loop'[p][s].pc = loop[p][s].pc
                                        /\ loop'[p][s] = Gone <=> loop[p][s] = Gone
    BY <1>6, GoneFact DEF PluginTyped, LiveLoop, StopPlugin
  <2>2. \A p \in Plugins : sub'[p].health = sub[p].health
    BY <1>6 DEF PluginTyped, SubState, StopPlugin
  <2>3. cut' = cut
    BY <1>6, Zenon DEF StopPlugin
  <2> QED
    BY <2>1, <2>2, <2>3, HealthSame, Zenon
<1>7. ASSUME StartPlugin PROVE HealthInv'
  <2> SUFFICES ASSUME NEW p \in Plugins, p \notin cut
               PROVE  /\ \A x \in Slots : loop'[p][x] # Gone => Fits(loop'[p][x].pc, sub'[p].health)
                      /\ (\A x \in Slots : loop'[p][x] = Gone) => sub'[p].health # "running"
    BY <1>7, Zenon DEF HealthInv, StartPlugin
  <2>1. sub'[p].health = sub[p].health
    BY <1>7 DEF PluginTyped, SubState, StartPlugin
  <2>2. CASE p = sup.at
    <3>1. \A s \in Slots : loop[p][s] = Gone
      BY <1>7, <2>2, Zenon DEF PluginTyped, LoopsInv, OneLoop, Waits, StartPlugin
    <3>2. \A s \in Slots : loop'[p][s] # Gone => loop'[p][s].pc = "begin"
      BY <1>7, <2>2, <3>1, FirstSlot, GoneFact, Zenon DEF PluginTyped, StartPlugin, Gone
    <3>3. sub[p].health # "running"
      BY <3>1, Zenon DEF HealthInv
    <3> QED
      BY <2>1, <3>2, <3>3, Zenon DEF Fits
  <2>3. CASE p # sup.at
    <3>1. loop'[p] = loop[p]
      BY <1>7, <2>3, Zenon DEF PluginTyped, StartPlugin
    <3> QED
      BY <2>1, <3>1, Zenon DEF HealthInv
  <2> QED
    BY <2>2, <2>3, Zenon
<1>8. ASSUME NEW p \in Plugins, NEW s \in Slots, LoopBegins(p, s) PROVE HealthInv'
  <2>1. loop[p][s] \in LiveLoop /\ loop[p][s] # Gone
    BY <1>8, LoopAtFact, Zenon DEF LoopBegins, LoopAt
  <2>2. PICK l, h : /\ LoopGoes(p, s, l, h)
                    /\ p \in cut \/ (Fits(l.pc, h) /\ (l = Gone => h # "running"))
    <3> DEFINE l == [loop[p][s] EXCEPT !.pc = "spawn"]
    <3>1. l.pc = "spawn"
      BY <2>1, Zenon DEF LiveLoop
    <3>2. LoopGoes(p, s, l, "starting")
      BY <1>8, Zenon DEF LoopBegins
    <3>3. Fits("spawn", "starting")
      BY Zenon DEF Fits
    <3> HIDE DEF l
    <3> QED
      BY <3>1, <3>2, <3>3
  <2> QED
    BY <2>1, <2>2, LoopGoesHealth, Zenon
<1>9. ASSUME NEW p \in Plugins, NEW s \in Slots, Spawn(p, s) PROVE HealthInv'
  <2>1. loop[p][s] \in LiveLoop /\ loop[p][s] # Gone
    BY <1>9, LoopAtFact, Zenon DEF Spawn, LoopAt
  <2>2. p \in cut \/ Fits(loop[p][s].pc, sub[p].health)
    BY <2>1, HealthNow, Zenon
  <2>3. PICK l, h : /\ LoopGoes(p, s, l, h)
                    /\ p \in cut \/ (Fits(l.pc, h) /\ (l = Gone => h # "running"))
    <3> DEFINE l == [loop[p][s] EXCEPT !.pc = "spawned",
                                       !.cfg = IF sub[p].torn THEN Off ELSE sub[p].cfg]
    <3>1. l.pc = "spawned"
      BY <2>1, Zenon DEF LiveLoop
    <3>2. LoopGoes(p, s, l, sub[p].health) /\ loop[p][s].pc = "spawn"
      BY <1>9, Zenon DEF Spawn, LoopAt
    <3> HIDE DEF l
    <3> QED
      BY <2>2, <3>1, <3>2, GoneFact, Zenon DEF Fits
  <2> QED
    BY <2>1, <2>3, LoopGoesHealth, Zenon
<1>10. ASSUME NEW p \in Plugins, NEW s \in Slots, SpawnFails(p, s) PROVE HealthInv'
  <2>1. loop[p][s] \in LiveLoop /\ loop[p][s] # Gone
    BY <1>10, LoopAtFact, Zenon DEF SpawnFails, LoopAt
  <2>2. PICK l, h : /\ LoopGoes(p, s, l, h)
                    /\ p \in cut \/ (Fits(l.pc, h) /\ (l = Gone => h # "running"))
    <3> DEFINE l == [loop[p][s] EXCEPT !.pc = "exited"]
    <3>1. l.pc = "exited"
      BY <2>1, Zenon DEF LiveLoop
    <3>2. LoopGoes(p, s, l, sub[p].health)
      BY <1>10, Zenon DEF SpawnFails
    <3> HIDE DEF l
    <3> QED
      BY <3>1, <3>2, GoneFact, Zenon DEF Fits
  <2> QED
    BY <2>1, <2>2, LoopGoesHealth, Zenon
<1>11. ASSUME NEW p \in Plugins, NEW s \in Slots, ReportRunning(p, s) PROVE HealthInv'
  <2>1. loop[p][s] \in LiveLoop /\ loop[p][s] # Gone
    BY <1>11, LoopAtFact, Zenon DEF ReportRunning, LoopAt
  <2>2. PICK l, h : /\ LoopGoes(p, s, l, h)
                    /\ p \in cut \/ (Fits(l.pc, h) /\ (l = Gone => h # "running"))
    <3> DEFINE l(pc) == [loop[p][s] EXCEPT !.pc = pc]
    <3>1. l("up").pc = "up" /\ l("exited").pc = "exited"
      BY <2>1, Zenon DEF LiveLoop
    <3>2. LoopGoes(p, s, l("up"), "running") \/ LoopGoes(p, s, l("exited"), "running")
      BY <1>11, Zenon DEF ReportRunning
    <3> HIDE DEF l
    <3> QED
      BY <3>1, <3>2, GoneFact, Zenon DEF Fits
  <2> QED
    BY <2>1, <2>2, LoopGoesHealth, Zenon
<1>12. ASSUME NEW p \in Plugins, NEW s \in Slots, ChildExits(p, s) PROVE HealthInv'
  <2>1. loop[p][s] \in LiveLoop /\ loop[p][s] # Gone
    BY <1>12, LoopAtFact, Zenon DEF ChildExits, LoopAt
  <2>2. p \in cut \/ Fits(loop[p][s].pc, sub[p].health)
    BY <2>1, HealthNow, Zenon
  <2>3. PICK l, h : /\ LoopGoes(p, s, l, h)
                    /\ p \in cut \/ (Fits(l.pc, h) /\ (l = Gone => h # "running"))
    <3> DEFINE l(pc) == [loop[p][s] EXCEPT !.pc = pc, !.cfg = Off]
    <3>1. l("stillborn").pc = "stillborn" /\ l("exited").pc = "exited"
      BY <2>1, Zenon DEF LiveLoop
    <3>2. \/ LoopGoes(p, s, l("stillborn"), sub[p].health) /\ loop[p][s].pc = "spawned"
          \/ LoopGoes(p, s, l("exited"), sub[p].health)
      BY <1>12, Zenon DEF ChildExits, LoopAt
    <3> HIDE DEF l
    <3> QED
      BY <2>2, <3>1, <3>2, GoneFact, Zenon DEF Fits
  <2> QED
    BY <2>1, <2>3, LoopGoesHealth, Zenon
<1>13. ASSUME NEW p \in Plugins, NEW s \in Slots, RunReturns(p, s) PROVE HealthInv'
  <2>1. loop[p][s] \in LiveLoop /\ loop[p][s] # Gone
    BY <1>13, LoopAtFact, Zenon DEF RunReturns, LoopAt
  <2>2. PICK l, h : /\ LoopGoes(p, s, l, h)
                    /\ p \in cut \/ (Fits(l.pc, h) /\ (l = Gone => h # "running"))
    <3> DEFINE l == [loop[p][s] EXCEPT !.pc = "backoff"]
    <3>1. l.pc = "backoff"
      BY <2>1, Zenon DEF LiveLoop
    <3>2. LoopGoes(p, s, l, "crashed") \/ LoopGoes(p, s, Gone, "stopped")
      BY <1>13, Zenon DEF RunReturns
    <3>3. Fits("backoff", "crashed") /\ Fits("gone", "stopped")
      BY Zenon DEF Fits
    <3> HIDE DEF l
    <3> QED
      BY <3>1, <3>2, <3>3, GoneFact
  <2> QED
    BY <2>1, <2>2, LoopGoesHealth, Zenon
<1>14. ASSUME NEW p \in Plugins, NEW s \in Slots, BackoffEnds(p, s) PROVE HealthInv'
  <2>1. loop[p][s] \in LiveLoop /\ loop[p][s] # Gone
    BY <1>14, LoopAtFact, Zenon DEF BackoffEnds, LoopAt
  <2>2. p \in cut \/ Fits(loop[p][s].pc, sub[p].health)
    BY <2>1, HealthNow, Zenon
  <2>3. PICK l, h : /\ LoopGoes(p, s, l, h)
                    /\ p \in cut \/ (Fits(l.pc, h) /\ (l = Gone => h # "running"))
    <3> DEFINE l == [loop[p][s] EXCEPT !.pc = "begin"]
    <3>1. l.pc = "begin"
      BY <2>1, Zenon DEF LiveLoop
    <3>2. /\ LoopGoes(p, s, l, sub[p].health) \/ LoopGoes(p, s, Gone, "stopped")
          /\ loop[p][s].pc = "backoff"
      BY <1>14, Zenon DEF BackoffEnds, LoopAt
    <3>3. Fits("backoff", sub[p].health) => Fits("begin", sub[p].health) /\ sub[p].health # "running"
      BY Zenon DEF Fits
    <3>4. Fits("gone", "stopped")
      BY Zenon DEF Fits
    <3> HIDE DEF l
    <3> QED
      BY <2>2, <3>1, <3>2, <3>3, <3>4, GoneFact
  <2> QED
    BY <2>1, <2>3, LoopGoesHealth, Zenon
<1> QED
  BY <1>2, <1>3, <1>4, <1>5, <1>6, <1>7, <1>8, <1>9, <1>10, <1>11, <1>12, <1>13, <1>14, Zenon
     DEF PluginNext, SupervisorStep, RunLoopStep

\* PluginInv holds in every reachable state.
THEOREM PluginInvariant == PluginSpec => []PluginInv
<1>1. PluginInit => PluginInv
  <2> SUFFICES ASSUME PluginInit PROVE PluginInv
    BY Zenon
  <2>1. PluginTyped
    BY PluginAssumption, GoneFact, Zenon
       DEF PluginInit, PluginTyped, SubState, Healths, SlotNames, Between,
       AllOff, Snapshots
  <2>2. LoopsInv
    BY PluginAssumption, Zenon DEF PluginInit, LoopsInv, OneLoop, ShutDown, Waits, Between
  <2>3. HealthInv
    BY Zenon DEF PluginInit, HealthInv
  <2> QED
    BY <2>1, <2>2, <2>3, Zenon DEF PluginInv
<1>2. PluginInv /\ [PluginNext]_pluginVars => PluginInv'
  BY PluginTypedKept, LoopsKept, HealthKept, Zenon DEF PluginInv
<1> QED
  BY <1>1, <1>2, PTL DEF PluginSpec

\* Through crashes, restarts and new configurations a plugin has one child at most,
\* as long as no Stop gave up on one.
THEOREM PluginOneChild == PluginSpec => []OneChild
<1>1. PluginInv => OneChild
  <2> SUFFICES ASSUME PluginInv, NEW p \in Plugins \ cut PROVE Cardinality(Child(p)) <= 1
    BY Zenon DEF OneChild
  <2>1. Child(p) \subseteq {sub[p].loop}
    BY GoneFact, Zenon DEF PluginInv, PluginTyped, LoopsInv, OneLoop, Child
  <2>2. IsFiniteSet({sub[p].loop}) /\ Cardinality({sub[p].loop}) = 1
    BY FS_Singleton, Zenon
  <2> QED
    BY <2>1, <2>2, FS_Subset, Zenon
<1> QED
  BY <1>1, PluginInvariant, PTL

\* The health record of a plugin that has a child says "starting" until the run loop
\* waits for the child and "running" from then on until it has seen the exit; it
\* says "running" at no other time.
THEOREM PluginHealthHonest == PluginSpec => []HealthHonest
<1>1. PluginInv => HealthHonest
  <2> SUFFICES ASSUME PluginInv, NEW p \in Plugins \ cut
               PROVE  /\ Child(p) # {} => sub[p].health \in {"starting", "running"}
                      /\ (\E s \in Slots : loop[p][s].pc = "up") => sub[p].health = "running"
                      /\ sub[p].health = "running" =>
                           \E s \in Slots : loop[p][s].pc \in {"up", "exited"}
    BY Zenon DEF HealthHonest
  <2>1. \A s \in Slots : loop[p][s].pc # "gone" => Fits(loop[p][s].pc, sub[p].health)
    BY GoneFact, Zenon DEF PluginInv, HealthInv
  <2>2. sub[p].health = "running" => \E s \in Slots : loop[p][s] # Gone
    BY Zenon DEF PluginInv, HealthInv
  <2>3. \A s \in Slots : loop[p][s] # Gone => loop[p][s].pc # "gone"
    BY GoneFact DEF PluginInv, PluginTyped
  <2> QED
    BY <2>1, <2>2, <2>3, Zenon DEF Child, Fits
<1> QED
  BY <1>1, PluginInvariant, PTL

\* An edge that has shut down has left no child behind.
THEOREM PluginNoChildLeft == PluginSpec => []NoChildLeft
<1>1. PluginInv => NoChildLeft
  BY GoneFact, Zenon DEF PluginInv, PluginTyped, LoopsInv, ShutDown, NoChildLeft, Child
<1> QED
  BY <1>1, PluginInvariant, PTL
=============================================================================
