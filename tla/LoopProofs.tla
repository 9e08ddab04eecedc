----------------------------- MODULE LoopProofs -----------------------------
(***************************************************************************)
(* Proofs about LoopOrchestrator, for any number of calls, instances and   *)
(* faults and any retry budget.  The inductive invariant is LoopInv: the   *)
(* lock names exactly the call that walks, a walk's attempt counter is the *)
(* distance it has gone plus two per rollback, and a phase that is about   *)
(* to announce its contract has written it.  FirstFollowed adds what the   *)
(* log tells of the first walk of an incident.                             *)
(***************************************************************************)
EXTENDS LoopOrchestrator, TLAPS

\* The lock is held by the call that walks, and by no other.
LockNamesWalker == \A c \in Calls : pc[c] \in Walking <=> lock = c

\* The counters of one call.
Counted(c) ==
    /\ pc[c] \in {"idle", "lock"} => attempt[c] = 1 /\ rollbackCount[c] = 0
    /\ pc[c] \in Walking =>
         /\ attempt[c] = Rank[current[c]] - Rank[opts[c].from] + 1
                          + 2 * rollbackCount[c]
                          - (IF rollbackCount[c] > MaxRetryCount THEN 2 ELSE 0)
         /\ rollbackCount[c] <= MaxRetryCount + 1
    /\ pc[c] \in {"enter", "work", "contract", "event"} =>
         rollbackCount[c] <= MaxRetryCount

Budget == \A c \in Calls : Counted(c)

\* A call about to write phase_contract_written has written its contract.
Announced ==
    /\ ContractBeforeEvent
    /\ \A c \in Calls : pc[c] = "event" /\ BearsContract(wiring, current[c])
          => current[c] \in contracts

LoopInv == LoopTypeOK /\ LockNamesWalker /\ Budget /\ Announced
-----------------------------------------------------------------------------
(* The transition table.                                                   *)

\* Ranks are positions, and nextPhase moves one position on.
LEMMA RankFacts ==
    /\ \A p \in Phase : Rank[p] \in 1..7
    /\ \A p \in Phase \ {"postmortem"} :
          nextPhase(p) \in Phase /\ Rank[nextPhase(p)] = Rank[p] + 1
    /\ Rank["approved"] = 5 /\ Rank["recovered"] = 6
BY DEF Rank, Phase, nextPhase, ForwardPhases

\* nextPhase agrees with the table of the abstract machine.
LEMMA NextAgrees ==
    \A p \in Phase \ {"postmortem"} : p \in DOMAIN PM!Next /\ PM!Next[p] = nextPhase(p)
BY DEF Rank, Phase, nextPhase, ForwardPhases, PM!Next

\* The abstract machine has the phases of the loop.
LEMMA PhasesAgree == PM!Phases = Phase
BY Zenon DEF Phase, PM!Phases
-----------------------------------------------------------------------------
(* Types.                                                                  *)

\* Appending a well-formed row leaves a log of well-formed rows that holds
\* the old ones and this one.
LEMMA AppendEventFacts ==
    ASSUME NEW l \in Seq(Event), NEW e \in Event
    PROVE  /\ AppendEvent(l, e) \in Seq(Event)
           /\ Rows(AppendEvent(l, e)) = Rows(l) \cup {e}
<1>1. CASE e \in Rows(l)
  BY <1>1, Zenon DEF AppendEvent
<1>2. CASE e \notin Rows(l)
  <2>1. AppendEvent(l, e) = Append(l, e)
    BY <1>2, Zenon DEF AppendEvent
  <2>2. Append(l, e) \in Seq(Event) /\ Len(Append(l, e)) = Len(l) + 1
    OBVIOUS
  <2>3. \A i \in 1..Len(l) : Append(l, e)[i] = l[i]
    OBVIOUS
  <2>4. Append(l, e)[Len(l) + 1] = e
    OBVIOUS
  <2> QED
    BY <2>1, <2>2, <2>3, <2>4 DEF Rows
<1> QED
  BY <1>1, <1>2, Zenon

\* The row a call writes is a row.
LEMMA EvType ==
    ASSUME LoopTypeOK, NEW c \in Calls, NEW t \in EventType
    PROVE  Ev(t, c) \in Event
BY Zenon DEF LoopTypeOK, Ev, Event

\* A tolerated append leaves the log and the fault count in their types, and
\* adds at most its own row.
LEMMA TryAppendType ==
    ASSUME LoopTypeOK, NEW e \in Event, TryAppend(e)
    PROVE  /\ log' \in Seq(Event)
           /\ dropped' \in Nat /\ dropped' + deaths <= MaxFaults
           /\ Rows(log') \subseteq Rows(log) \cup {e}
<1>1. CASE log' = AppendEvent(log, e) /\ UNCHANGED dropped
  BY <1>1, AppendEventFacts, Zenon DEF LoopTypeOK
<1>2. CASE CanFail /\ dropped' = dropped + 1 /\ UNCHANGED log
  BY <1>2, LoopAssumption DEF LoopTypeOK, CanFail
<1> QED
  BY <1>1, <1>2, Zenon DEF TryAppend

\* The ranks of a call's phases are numbers.
LEMMA RanksAreInts ==
    ASSUME LoopTypeOK, NEW c \in Calls
    PROVE  Rank[current[c]] \in Int /\ Rank[opts[c].from] \in Int
<1>1. current[c] \in Phase /\ opts[c].from \in Phase
  BY Zenon DEF LoopTypeOK, Options
<1>2. Rank[current[c]] \in 1..7 /\ Rank[opts[c].from] \in 1..7
  BY <1>1, RankFacts, Zenon
<1> QED
  BY <1>2

\* Ending a walk, and going round its loop, keep the locals in their types.
LEMMA EndWalkType ==
    ASSUME LoopTypeOK, NEW c \in Calls, NEW p \in Phase \cup {"failed"}, EndWalk(c, p)
    PROVE  pc' \in [Calls -> PC] /\ final' \in [Calls -> Phase \cup {"failed", "none"}]
<1>1. "store" \in PC
  BY Zenon DEF PC, Walking
<1> QED
  BY <1>1, Zenon DEF LoopTypeOK, EndWalk, Goto

\* Going on to another phase leaves the fields it writes well typed.
LEMMA GoOnType ==
    ASSUME LoopTypeOK, NEW c \in Calls, NEW p \in Phase, GoOn(c, p)
    PROVE  /\ pc' \in [Calls -> PC]
           /\ current' \in [Calls -> Phase] /\ attempt' \in [Calls -> Nat]
<1>1. "enter" \in PC
  BY Zenon DEF PC, Walking
<1> QED
  BY <1>1 DEF LoopTypeOK, GoOn, Goto

\* Every step of the loop keeps the types.
LEMMA LoopTypeStep == LoopTypeOK /\ [LoopNext]_loopVars => LoopTypeOK'
<1> SUFFICES ASSUME LoopTypeOK, [LoopNext]_loopVars PROVE LoopTypeOK'
  BY Zenon
<1> USE LoopAssumption DEF config, locals, Goto
<1>1. CASE UNCHANGED loopVars
  BY <1>1, Zenon DEF loopVars, LoopTypeOK
<1>2. ASSUME NEW c \in Calls, NEW r \in Requests, LookUp(c, r) PROVE LoopTypeOK'
  BY <1>2, Zenon DEF LoopTypeOK, LookUp, PC
<1>3. ASSUME NEW c \in Calls, TakeLock(c) PROVE LoopTypeOK'
  BY <1>3, Zenon DEF LoopTypeOK, TakeLock, PC, Walking, Options
<1>4. ASSUME NEW c \in Calls, Refused(c) PROVE LoopTypeOK'
  BY <1>4, Zenon DEF LoopTypeOK, Refused, PC
<1>5. ASSUME NEW c \in Calls, Enter(c) PROVE LoopTypeOK'
  <2>1. log' \in Seq(Event) /\ dropped' \in Nat /\ dropped' + deaths <= MaxFaults
    <3>1. CASE attempt[c] > MaxAttempts
      BY <1>5, <3>1, Zenon DEF Enter, LoopTypeOK
    <3>2. CASE ~(attempt[c] > MaxAttempts)
      BY <1>5, <3>2, EvType, TryAppendType, Zenon DEF Enter, EventType
    <3> QED
      BY <3>1, <3>2, Zenon
  <2>2. pc' \in [Calls -> PC] /\ final' \in [Calls -> Phase \cup {"failed", "none"}]
    <3>1. CASE attempt[c] > MaxAttempts
      BY <1>5, <3>1, EndWalkType, Zenon DEF Enter, LoopTypeOK
    <3>2. CASE ~(attempt[c] > MaxAttempts)
      BY <1>5, <3>2, ZenonT(30) DEF Enter, LoopTypeOK, PC, Walking
    <3> QED
      BY <3>1, <3>2, Zenon
  <2> QED
    BY <1>5, <2>1, <2>2, Zenon DEF LoopTypeOK, Enter
<1>6. ASSUME NEW c \in Calls, Fail(c) PROVE LoopTypeOK'
  <2>1. log' \in Seq(Event) /\ dropped' \in Nat /\ dropped' + deaths <= MaxFaults
    BY <1>6, EvType, TryAppendType, Zenon DEF Fail, EventType
  <2> QED
    BY <1>6, <2>1, EndWalkType, Zenon DEF LoopTypeOK, Fail
<1>7. ASSUME NEW c \in Calls, Pause(c) PROVE LoopTypeOK'
  <2>1. log' \in Seq(Event) /\ dropped' \in Nat /\ dropped' + deaths <= MaxFaults
    BY <1>7, EvType, TryAppendType, Zenon DEF Pause, EventType
  <2> QED
    BY <1>7, <2>1, EndWalkType, Zenon DEF LoopTypeOK, Pause, Phase
<1>8. ASSUME NEW c \in Calls, RollBack(c) PROVE LoopTypeOK'
  <2>1. log' \in Seq(Event) /\ dropped' \in Nat /\ dropped' + deaths <= MaxFaults
    BY <1>8, EvType, TryAppendType, Zenon DEF RollBack, EventType
  <2>2. /\ pc' \in [Calls -> PC]
        /\ current' \in [Calls -> Phase] /\ attempt' \in [Calls -> Nat]
    <3>1. CASE rollbackCount[c] + 1 > MaxRetryCount
      BY <1>8, <3>1, Zenon DEF RollBack, LoopTypeOK, PC, Walking
    <3>2. CASE ~(rollbackCount[c] + 1 > MaxRetryCount)
      BY <1>8, <3>2, GoOnType, Zenon DEF RollBack, LoopTypeOK, Phase
    <3> QED
      BY <3>1, <3>2, Zenon
  <2>3. rollbackCount' \in [Calls -> Nat]
    BY <1>8 DEF RollBack, LoopTypeOK
  <2> QED
    BY <1>8, <2>1, <2>2, <2>3, Zenon DEF LoopTypeOK, RollBack
<1>9. ASSUME NEW c \in Calls, Exhaust(c) PROVE LoopTypeOK'
  <2>1. log' \in Seq(Event) /\ dropped' \in Nat /\ dropped' + deaths <= MaxFaults
    BY <1>9, EvType, TryAppendType, Zenon DEF Exhaust, EventType
  <2> QED
    BY <1>9, <2>1, EndWalkType, Zenon DEF LoopTypeOK, Exhaust
<1>10. ASSUME NEW c \in Calls, Pass(c) PROVE LoopTypeOK'
  BY <1>10, Zenon DEF LoopTypeOK, Pass, PC, Walking
<1>11. ASSUME NEW c \in Calls, WriteContract(c) PROVE LoopTypeOK'
  BY <1>11 DEF LoopTypeOK, WriteContract, PC, Walking
<1>12. ASSUME NEW c \in Calls, ContractFails(c) PROVE LoopTypeOK'
  <2>1. Ev("phase_failed", c) \in Event
    BY EvType, Zenon DEF EventType
  <2>2. log' \in Seq(Event)
    BY <1>12, <2>1, AppendEventFacts DEF ContractFails, LoopTypeOK
  <2> QED
    BY <1>12, <2>2, EndWalkType DEF LoopTypeOK, ContractFails, CanFail
<1>13. ASSUME NEW c \in Calls, Complete(c) PROVE LoopTypeOK'
  <2>1. log' \in Seq(Event)
    BY <1>13, EvType, AppendEventFacts, Zenon DEF Complete, EventType, LoopTypeOK
  <2>2. /\ pc' \in [Calls -> PC]
        /\ current' \in [Calls -> Phase] /\ attempt' \in [Calls -> Nat]
        /\ final' \in [Calls -> Phase \cup {"failed", "none"}]
    <3>1. CASE current[c] \in {opts[c].stop, "postmortem"}
      BY <1>13, <3>1, EndWalkType, Zenon DEF Complete, LoopTypeOK
    <3>2. CASE current[c] \notin {opts[c].stop, "postmortem"}
      <4>1. nextPhase(current[c]) \in Phase
        BY <3>2, RankFacts, Zenon DEF LoopTypeOK
      <4> QED
        BY <1>13, <3>2, <4>1, GoOnType, Zenon DEF Complete, LoopTypeOK
    <3> QED
      BY <3>1, <3>2, Zenon
  <2> QED
    BY <1>13, <2>1, <2>2, Zenon DEF LoopTypeOK, Complete
<1>14. ASSUME NEW c \in Calls, CompleteFails(c) PROVE LoopTypeOK'
  BY <1>14 DEF LoopTypeOK, CompleteFails, CanFail, PC, Walking
<1>15. ASSUME NEW c \in Calls, Store(c) PROVE LoopTypeOK'
  <2>1. opts[c].key \in Keys \cup {"none"} /\ home[c] \in Instances
    BY Zenon DEF LoopTypeOK, Options
  <2> QED
    BY <1>15, <2>1, Zenon DEF LoopTypeOK, Store, PC, Walking
<1>16. ASSUME NEW c \in Calls, Release(c) PROVE LoopTypeOK'
  BY <1>16, Zenon DEF LoopTypeOK, Release, PC
<1>17. ASSUME NEW i \in Instances, InstanceDies(i) PROVE LoopTypeOK'
  BY <1>17 DEF LoopTypeOK, InstanceDies, CanFail, PC
<1> QED
  BY <1>1, <1>2, <1>3, <1>4, <1>5, <1>6, <1>7, <1>8, <1>9, <1>10, <1>11, <1>12,
     <1>13, <1>14, <1>15, <1>16, <1>17, Zenon DEF LoopNext, CallStep
-----------------------------------------------------------------------------
(* The invariant, conjunct by conjunct.                                    *)

\* Taking the lock starts the walk, releasing it or dying with it ends it.
LEMMA LockStep ==
    ASSUME LoopTypeOK, LockNamesWalker, [LoopNext]_loopVars PROVE LockNamesWalker'
<1> USE LoopAssumption DEF config, locals, Goto, EndWalk, GoOn
<1>1. CASE UNCHANGED loopVars
  BY <1>1, Zenon DEF LoopTypeOK, LockNamesWalker, loopVars, Walking
<1>2. ASSUME NEW c \in Calls, NEW r \in Requests, LookUp(c, r) PROVE LockNamesWalker'
  BY <1>2, Zenon DEF LoopTypeOK, LockNamesWalker, LookUp, Walking
<1>3. ASSUME NEW c \in Calls, TakeLock(c) PROVE LockNamesWalker'
  BY <1>3 DEF LoopTypeOK, LockNamesWalker, TakeLock, Walking
<1>4. ASSUME NEW c \in Calls, Refused(c) PROVE LockNamesWalker'
  BY <1>4, Zenon DEF LoopTypeOK, LockNamesWalker, Refused, Walking
<1>5. ASSUME NEW c \in Calls, Enter(c) PROVE LockNamesWalker'
  BY <1>5 DEF LoopTypeOK, LockNamesWalker, Enter, Walking
<1>6. ASSUME NEW c \in Calls, Fail(c) PROVE LockNamesWalker'
  BY <1>6, Zenon DEF LoopTypeOK, LockNamesWalker, Fail, Walking
<1>7. ASSUME NEW c \in Calls, Pause(c) PROVE LockNamesWalker'
  BY <1>7 DEF LoopTypeOK, LockNamesWalker, Pause, Walking
<1>8. ASSUME NEW c \in Calls, RollBack(c) PROVE LockNamesWalker'
  BY <1>8 DEF LoopTypeOK, LockNamesWalker, RollBack, Walking
<1>9. ASSUME NEW c \in Calls, Exhaust(c) PROVE LockNamesWalker'
  BY <1>9, Zenon DEF LoopTypeOK, LockNamesWalker, Exhaust, Walking
<1>10. ASSUME NEW c \in Calls, Pass(c) PROVE LockNamesWalker'
  BY <1>10 DEF LoopTypeOK, LockNamesWalker, Pass, Walking
<1>11. ASSUME NEW c \in Calls, WriteContract(c) PROVE LockNamesWalker'
  BY <1>11, Zenon DEF LoopTypeOK, LockNamesWalker, WriteContract, Walking
<1>12. ASSUME NEW c \in Calls, ContractFails(c) PROVE LockNamesWalker'
  BY <1>12, Zenon DEF LoopTypeOK, LockNamesWalker, ContractFails, Walking
<1>13. ASSUME NEW c \in Calls, Complete(c) PROVE LockNamesWalker'
  BY <1>13 DEF LoopTypeOK, LockNamesWalker, Complete, Walking
<1>14. ASSUME NEW c \in Calls, CompleteFails(c) PROVE LockNamesWalker'
  BY <1>14, Zenon DEF LoopTypeOK, LockNamesWalker, CompleteFails, Walking
<1>15. ASSUME NEW c \in Calls, Store(c) PROVE LockNamesWalker'
  BY <1>15, Zenon DEF LoopTypeOK, LockNamesWalker, Store, Walking
<1>16. ASSUME NEW c \in Calls, Release(c) PROVE LockNamesWalker'
  BY <1>16, Zenon DEF LoopTypeOK, LockNamesWalker, Release, Walking
<1>17. ASSUME NEW i \in Instances, InstanceDies(i) PROVE LockNamesWalker'
  BY <1>17 DEF LoopTypeOK, LockNamesWalker, InstanceDies, Walking
<1> QED
  BY <1>1, <1>2, <1>3, <1>4, <1>5, <1>6, <1>7, <1>8, <1>9, <1>10,
     <1>11, <1>12, <1>13, <1>14, <1>15, <1>16, <1>17, Zenon DEF LoopNext, CallStep

\* Going on costs one attempt and one rank, rolling back one of each the other
\* way, and only within the budget.
LEMMA BudgetStep ==
    ASSUME LoopTypeOK, Budget, [LoopNext]_loopVars PROVE Budget'
<1> USE LoopAssumption DEF config, locals, Goto, EndWalk, GoOn
<1>1. CASE UNCHANGED loopVars
  BY <1>1, RankFacts, Zenon DEF LoopTypeOK, Budget, Counted, loopVars, Walking, Options
<1>2. ASSUME NEW c \in Calls, NEW r \in Requests, LookUp(c, r) PROVE Budget'
  BY <1>2, RankFacts DEF LoopTypeOK, Budget, Counted, LookUp, Walking, Options
<1>3. ASSUME NEW c \in Calls, TakeLock(c) PROVE Budget'
  BY <1>3, RankFacts, SMTT(30) DEF LoopTypeOK, Budget, Counted, TakeLock, Walking, Options
<1>4. ASSUME NEW c \in Calls, Refused(c) PROVE Budget'
  BY <1>4, RankFacts, Zenon DEF LoopTypeOK, Budget, Counted, Refused, Walking, Options
<1>5. ASSUME NEW c \in Calls, Enter(c) PROVE Budget'
  BY <1>5, RankFacts, SMTT(30) DEF LoopTypeOK, Budget, Counted, Enter, Walking, Options
<1>6. ASSUME NEW c \in Calls, Fail(c) PROVE Budget'
  BY <1>6, RankFacts DEF LoopTypeOK, Budget, Counted, Fail, Walking, Options
<1>7. ASSUME NEW c \in Calls, Pause(c) PROVE Budget'
  BY <1>7, RankFacts DEF LoopTypeOK, Budget, Counted, Pause, Walking, Options
<1>8. ASSUME NEW c \in Calls, RollBack(c) PROVE Budget'
  <2> SUFFICES ASSUME NEW d \in Calls PROVE Counted(d)'
    BY Zenon DEF Budget
  <2>1. CASE d /= c
    <3>1. /\ pc'[d] = pc[d] /\ current'[d] = current[d] /\ attempt'[d] = attempt[d]
          /\ rollbackCount'[d] = rollbackCount[d] /\ opts' = opts
      BY <1>8, <2>1 DEF RollBack, LoopTypeOK
    <3> QED
      BY <3>1, Zenon DEF Budget, Counted
  <2>2. CASE d = c /\ rollbackCount[c] + 1 > MaxRetryCount
    <3>1. /\ pc'[c] = "exhaust" /\ attempt' = attempt /\ current' = current /\ opts' = opts
          /\ rollbackCount'[c] = rollbackCount[c] + 1 /\ pc[c] = "work"
      BY <1>8, <2>2, Zenon DEF RollBack, LoopTypeOK
    <3>2. Counted(c) /\ rollbackCount[c] \in Nat /\ attempt[c] \in Nat
      BY Zenon DEF Budget, LoopTypeOK
    <3>3. Rank[current[c]] \in Int /\ Rank[opts[c].from] \in Int
      BY RanksAreInts, Zenon
    <3>4. rollbackCount[c] <= MaxRetryCount
      BY <3>1, <3>2, Zenon DEF Counted
    <3> QED
      BY <2>2, <3>1, <3>2, <3>3, <3>4 DEF Counted, Walking
  <2>3. CASE d = c /\ ~(rollbackCount[c] + 1 > MaxRetryCount)
    <3>1. /\ pc'[c] = "enter" /\ attempt'[c] = attempt[c] + 1 /\ opts' = opts
          /\ current'[c] = "approved" /\ current[c] = "recovered"
          /\ rollbackCount'[c] = rollbackCount[c] + 1
      BY <1>8, <2>3, RankFacts DEF RollBack, LoopTypeOK
    <3>2. Counted(c)
      BY Zenon DEF Budget
    <3>3. Rank[current[c]] \in Int /\ Rank[opts[c].from] \in Int
      BY RanksAreInts
    <3> QED
      <4>1. pc[c] = "work" /\ rollbackCount[c] \in Nat /\ attempt[c] \in Nat
        BY <1>8, Zenon DEF RollBack, LoopTypeOK
      <4>2. /\ rollbackCount[c] <= MaxRetryCount /\ rollbackCount'[c] <= MaxRetryCount
            /\ attempt[c] = Rank["recovered"] - Rank[opts[c].from] + 1
                              + 2 * rollbackCount[c]
        BY <2>3, <3>1, <3>2, <3>3, <4>1 DEF Counted, Walking
      <4>3. attempt'[c] = Rank["approved"] - Rank[opts[c].from] + 1
                           + 2 * rollbackCount'[c]
        BY <3>1, <3>3, <4>1, <4>2, RankFacts
      <4> QED
        BY <2>3, <3>1, <4>1, <4>2, <4>3 DEF Counted, Walking
  <2> QED
    BY <2>1, <2>2, <2>3, Zenon
<1>9. ASSUME NEW c \in Calls, Exhaust(c) PROVE Budget'
  BY <1>9, RankFacts DEF LoopTypeOK, Budget, Counted, Exhaust, Walking, Options
<1>10. ASSUME NEW c \in Calls, Pass(c) PROVE Budget'
  BY <1>10, RankFacts DEF LoopTypeOK, Budget, Counted, Pass, Walking, Options
<1>11. ASSUME NEW c \in Calls, WriteContract(c) PROVE Budget'
  BY <1>11, RankFacts DEF LoopTypeOK, Budget, Counted, WriteContract, Walking, Options
<1>12. ASSUME NEW c \in Calls, ContractFails(c) PROVE Budget'
  BY <1>12, RankFacts DEF LoopTypeOK, Budget, Counted, ContractFails, Walking, Options
<1>13. ASSUME NEW c \in Calls, Complete(c) PROVE Budget'
  <2> SUFFICES ASSUME NEW d \in Calls PROVE Counted(d)'
    BY DEF Budget
  <2>1. CASE d /= c
    <3>1. /\ pc'[d] = pc[d] /\ current'[d] = current[d] /\ attempt'[d] = attempt[d]
          /\ rollbackCount'[d] = rollbackCount[d] /\ opts' = opts
      BY <1>13, <2>1 DEF Complete, LoopTypeOK
    <3> QED
      BY <3>1 DEF Budget, Counted
  <2>2. CASE d = c /\ current[c] \in {opts[c].stop, "postmortem"}
    BY <1>13, <2>2 DEF LoopTypeOK, Budget, Counted, Complete, Walking
  <2>3. CASE d = c /\ current[c] \notin {opts[c].stop, "postmortem"}
    <3>1. /\ pc'[c] = "enter" /\ attempt'[c] = attempt[c] + 1 /\ opts' = opts
          /\ Rank[current'[c]] = Rank[current[c]] + 1
          /\ rollbackCount' = rollbackCount
      BY <1>13, <2>3, RankFacts DEF Complete, LoopTypeOK
    <3>2. Counted(c)
      BY DEF Budget
    <3>3. Rank[current[c]] \in Int /\ Rank[opts[c].from] \in Int
      BY RanksAreInts
    <3>4. pc[c] = "event" /\ attempt[c] \in Nat /\ rollbackCount[c] \in Nat
      BY <1>13, Zenon DEF Complete, LoopTypeOK
    <3>5. rollbackCount[c] <= MaxRetryCount
      BY <3>2, <3>4, Zenon DEF Counted
    <3> QED
      BY <2>3, <3>1, <3>2, <3>3, <3>4, <3>5 DEF Counted, Walking
  <2> QED
    BY <2>1, <2>2, <2>3, Zenon
<1>14. ASSUME NEW c \in Calls, CompleteFails(c) PROVE Budget'
  BY <1>14, RankFacts DEF LoopTypeOK, Budget, Counted, CompleteFails, Walking, Options
<1>15. ASSUME NEW c \in Calls, Store(c) PROVE Budget'
  BY <1>15, RankFacts DEF LoopTypeOK, Budget, Counted, Store, Walking, Options
<1>16. ASSUME NEW c \in Calls, Release(c) PROVE Budget'
  BY <1>16, RankFacts DEF LoopTypeOK, Budget, Counted, Release, Walking, Options
<1>17. ASSUME NEW i \in Instances, InstanceDies(i) PROVE Budget'
  BY <1>17, RankFacts, Zenon DEF LoopTypeOK, Budget, Counted, InstanceDies, Walking, Options
<1> QED
  BY <1>1, <1>2, <1>3, <1>4, <1>5, <1>6, <1>7, <1>8, <1>9, <1>10,
     <1>11, <1>12, <1>13, <1>14, <1>15, <1>16, <1>17 DEF LoopNext, CallStep

\* Only a call that has reached the announcement adds phase_contract_written.
LEMMA NewAnnouncement ==
    ASSUME LoopTypeOK, [LoopNext]_loopVars, NEW e \in Rows(log'), e \notin Rows(log),
           e.type = "phase_contract_written"
    PROVE  \E c \in Calls : pc[c] = "event" /\ e.phase = current[c]
<1>1. ASSUME NEW c \in Calls, NEW t \in EventType \ {"phase_contract_written"}
      PROVE  ~TryAppend(Ev(t, c)) /\ log' /= AppendEvent(log, Ev(t, c))
  <2>1. Ev(t, c) \in Event /\ Ev(t, c).type = t
    BY EvType, Zenon DEF Ev
  <2>2. e /= Ev(t, c)
    BY <2>1, Zenon
  <2>3. e \notin Rows(log) \cup {Ev(t, c)}
    BY <2>2, Zenon
  <2> QED
    BY <2>1, <2>3, TryAppendType, AppendEventFacts, SMTT(30) DEF LoopTypeOK
<1>2. log' /= log
  BY Zenon
<1>3. ASSUME NEW c \in Calls, CallStep(c) PROVE Complete(c)
  <2>1. ~Enter(c) /\ ~Fail(c) /\ ~Pause(c) /\ ~RollBack(c) /\ ~Exhaust(c)
    BY <1>1, <1>2, Zenon DEF Enter, Fail, Pause, RollBack, Exhaust, EventType
  <2>2. ~ContractFails(c)
    BY <1>1, <1>2, Zenon DEF ContractFails, EventType
  <2>3. /\ ~TakeLock(c) /\ ~Refused(c) /\ ~Pass(c) /\ ~WriteContract(c)
        /\ ~CompleteFails(c) /\ ~Store(c) /\ ~Release(c)
    BY <1>2, Zenon DEF TakeLock, Refused, Pass, WriteContract, CompleteFails, Store, Release
  <2> QED
    BY <1>3, <2>1, <2>2, <2>3, Zenon DEF CallStep
<1>4. PICK c \in Calls : Complete(c)
  BY <1>2, <1>3, Zenon DEF LoopNext, loopVars, LookUp, InstanceDies
<1>5. Ev("phase_contract_written", c) \in Event
  BY EvType, Zenon DEF EventType
<1>6. e = Ev("phase_contract_written", c)
  BY <1>4, <1>5, AppendEventFacts DEF Complete, LoopTypeOK
<1> QED
  BY <1>4, <1>6, Zenon DEF Complete, Ev

\* The contract is written before the call gets to announce it, and contracts
\* are never taken back.
LEMMA AnnouncedStep ==
    ASSUME LoopTypeOK, Announced, [LoopNext]_loopVars PROVE Announced'
<1> USE DEF config, locals, Goto, EndWalk, GoOn
<1>1. wiring' = wiring /\ contracts \subseteq contracts'
  BY DEF LoopNext, CallStep, loopVars, LookUp, TakeLock, Refused, Enter, Fail, Pause,
         RollBack, Exhaust, Pass, WriteContract, ContractFails, Complete, CompleteFails,
         Store, Release, InstanceDies
<1>2. ASSUME NEW e \in Rows(log'), e.type = "phase_contract_written",
             BearsContract(wiring', e.phase)
      PROVE  e.phase \in contracts'
  <2>1. CASE e \in Rows(log)
    BY <1>1, <1>2, <2>1, Zenon DEF Announced, ContractBeforeEvent
  <2>2. CASE e \notin Rows(log)
    <3>1. PICK c \in Calls : pc[c] = "event" /\ e.phase = current[c]
      BY <1>2, <2>2, NewAnnouncement, Zenon
    <3> QED
      BY <1>1, <1>2, <3>1, Zenon DEF Announced
  <2> QED
    BY <2>1, <2>2, Zenon
<1>3. ASSUME NEW c \in Calls, pc'[c] = "event", BearsContract(wiring', current'[c])
      PROVE  current'[c] \in contracts'
  <2>1. CASE pc[c] = "event" /\ current'[c] = current[c]
    BY <1>1, <1>3, <2>1, Zenon DEF Announced
  <2>2. CASE WriteContract(c)
    BY <2>2, Zenon DEF WriteContract
  <2>3. CASE Pass(c)
    BY <1>1, <1>3, <2>3, Zenon DEF Pass, LoopTypeOK
  <2> DEFINE Reached == \/ pc[c] = "event" /\ current'[c] = current[c]
                        \/ WriteContract(c) \/ Pass(c)
  <2>4. Reached
    <3>1. ASSUME NEW d \in Calls, NEW r \in Requests, LookUp(d, r) PROVE Reached
      BY <1>3, <3>1, Zenon DEF LookUp, LoopTypeOK
    <3>2. ASSUME NEW d \in Calls, d /= c, CallStep(d) PROVE Reached
      BY <1>3, <3>2, ZenonT(30) DEF LoopTypeOK, CallStep, TakeLock, Refused, Enter, Fail, Pause,
         RollBack, Exhaust, Pass, WriteContract, ContractFails, Complete, CompleteFails,
         Store, Release
    <3>3. ASSUME CallStep(c) PROVE Reached
      BY <1>3, <3>3 DEF LoopTypeOK, CallStep, TakeLock, Refused, Enter, Fail, Pause,
         RollBack, Exhaust, Pass, WriteContract, ContractFails, Complete, CompleteFails,
         Store, Release
    <3>4. ASSUME NEW i \in Instances, InstanceDies(i) PROVE Reached
      BY <1>3, <3>4, Zenon DEF InstanceDies
    <3>5. CASE UNCHANGED loopVars
      BY <1>3, <3>5, Zenon DEF loopVars
    <3> QED
      BY <3>1, <3>2, <3>3, <3>4, <3>5, Zenon DEF LoopNext
  <2> QED
    BY <2>1, <2>2, <2>3, <2>4, Zenon
<1> QED
  BY <1>2, <1>3, ZenonT(30) DEF Announced, ContractBeforeEvent
-----------------------------------------------------------------------------
(* The invariant holds, and what follows from it.                          *)

\* The invariant holds at the start, where nobody walks and the log is empty.
LEMMA LoopInvInit == LoopInit => LoopInv
<1> SUFFICES ASSUME LoopInit PROVE LoopInv
  BY Zenon
<1> USE LoopAssumption DEF LoopInit
<1>1. LoopTypeOK
  <2>1. log \in Seq(Event)
    OBVIOUS
  <2>2. [from |-> "detected", stop |-> "none", key |-> "none"] \in Options
    BY Zenon DEF Options, Phase
  <2> QED
    BY <2>1, <2>2 DEF LoopTypeOK, PC, Phase
<1>2. LockNamesWalker /\ Budget
  BY Zenon DEF LockNamesWalker, Budget, Counted, Walking
<1>3. Rows(log) = {}
  BY DEF Rows
<1>4. Announced
  BY <1>3, Zenon DEF Announced, ContractBeforeEvent
<1> QED
  BY <1>1, <1>2, <1>4, Zenon DEF LoopInv

\* Every step keeps the invariant, conjunct by conjunct.
LEMMA LoopInvStep == LoopInv /\ [LoopNext]_loopVars => LoopInv'
BY LoopTypeStep, LockStep, BudgetStep, AnnouncedStep, Zenon DEF LoopInv

\* LoopInv is an invariant of every behaviour of the loop, fair or not.
THEOREM LoopInvariant == LoopSpec => []LoopInv
BY LoopInvInit, LoopInvStep, PTL DEF LoopSpec

\* Every variable keeps its type, for any number of calls, instances, faults.
THEOREM LoopTypes == LoopSpec => []LoopTypeOK
<1>1. LoopInv => LoopTypeOK
  BY Zenon DEF LoopInv
<1> QED
  BY <1>1, LoopInvariant, PTL

\* The advisory lock lets one call walk the incident at a time, and is never
\* left with a call that is not walking, whichever instances die.
THEOREM LoopExclusive == LoopSpec => []WalkExclusive
<1>1. LoopInv => WalkExclusive
  BY Zenon DEF LoopInv, LockNamesWalker, WalkExclusive
<1> QED
  BY <1>1, LoopInvariant, PTL

\* A phase with a contract is announced only after its contract is stored.
THEOREM LoopContractFirst == LoopSpec => []ContractBeforeEvent
<1>1. LoopInv => ContractBeforeEvent
  BY Zenon DEF LoopInv, Announced
<1> QED
  BY <1>1, LoopInvariant, PTL

\* The attempt counter of a walk is bounded by the phases and the rollbacks.
LEMMA UnderTheCap ==
    ASSUME LoopInv, NEW c \in Calls, pc[c] \in Walking PROVE attempt[c] <= MaxAttempts
<1>1. current[c] \in Phase /\ opts[c].from \in Phase
  BY Zenon DEF LoopInv, LoopTypeOK, Options
<1>2. Rank[current[c]] \in 1..7 /\ Rank[opts[c].from] \in 1..7
  BY <1>1, RankFacts, Zenon
<1>3. Counted(c) /\ rollbackCount[c] \in Nat
  BY Zenon DEF LoopInv, Budget, LoopTypeOK
<1> QED
  BY <1>2, <1>3, LoopAssumption DEF Counted

\* For every retry budget the cap leaves room for, the cap is not what ends a
\* walk.
THEOREM LoopCapUnreached == LoopSpec => []CapUnreached
<1>1. LoopInv => CapUnreached
  BY UnderTheCap, Zenon DEF CapUnreached, LoopInv, Budget, Counted
<1> QED
  BY <1>1, LoopInvariant, PTL
-----------------------------------------------------------------------------
(* The first walk of an incident can be read off the log.                  *)

\* How far the log has followed the only call there was: no row is of a later
\* attempt than its own, and the newest one tells where the walk is.
Followed(c) ==
    /\ pc[c] \in {"idle", "lock"} => log = <<>>
    /\ pc[c] = "enter" =>
         /\ \A e \in Rows(log) : e.attempt < attempt[c]
         /\ attempt[c] > 1 => State(log) = current[c]
    /\ pc[c] \in {"work", "contract", "event"} =>
         /\ log # <<>> /\ log[Len(log)] = Ev("phase_entered", c)
         /\ \A e \in Rows(log) : /\ e.attempt <= attempt[c]
                                 /\ e.attempt = attempt[c] => e.type = "phase_entered"
    /\ final[c] # "none" => pc[c] \in {"store", "release", "done"}
    /\ final[c] = "postmortem" => State(log) = "postmortem"

FirstFollowed == \A c \in Calls : FirstWalk(c) => Followed(c)

\* A new row is the newest one.
LEMMA NewRow ==
    ASSUME NEW l \in Seq(Event), NEW e \in Event, e \notin Rows(l)
    PROVE  LET m == AppendEvent(l, e)
           IN  /\ m \in Seq(Event) /\ m # <<>> /\ m[Len(m)] = e
               /\ Rows(m) = Rows(l) \cup {e}
               /\ Len(m) = Len(l) + 1 /\ \A i \in 1..Len(l) : m[i] = l[i]
<1>1. AppendEvent(l, e) = Append(l, e)
  BY Zenon DEF AppendEvent
<1>2. /\ Append(l, e) \in Seq(Event) /\ Len(Append(l, e)) = Len(l) + 1
      /\ Append(l, e)[Len(l) + 1] = e /\ \A i \in 1..Len(l) : Append(l, e)[i] = l[i]
  OBVIOUS
<1>3. Append(l, e) # <<>>
  BY <1>2
<1> QED
  BY <1>1, <1>2, <1>3, AppendEventFacts, Zenon

\* What State makes of the newest row, by its type.
LEMMA StateByNewest ==
    ASSUME NEW l \in Seq(Event), l # <<>>
    PROVE  LET e == l[Len(l)]
           IN  /\ e.type = "phase_entered" => State(l) = e.phase
               /\ e.type = "rollback" => State(l) = "approved"
               /\ e.type = "phase_contract_written" /\ e.phase # "postmortem" =>
                    State(l) = nextPhase(e.phase)
<1> DEFINE e == l[Len(l)]
<1>1. ~isTerminalEvent(e) => State(l) = recoverFromEvents(e)
  BY Zenon DEF State
<1>2. e.type = "phase_entered" => ~isTerminalEvent(e) /\ recoverFromEvents(e) = e.phase
  BY Zenon DEF isTerminalEvent, recoverFromEvents
<1>3. e.type = "rollback" => ~isTerminalEvent(e) /\ recoverFromEvents(e) = "approved"
  BY Zenon DEF isTerminalEvent, recoverFromEvents
<1>4. e.type = "phase_contract_written" /\ e.phase # "postmortem" =>
        ~isTerminalEvent(e) /\ recoverFromEvents(e) = nextPhase(e.phase)
  BY Zenon DEF isTerminalEvent, recoverFromEvents
<1> QED
  BY <1>1, <1>2, <1>3, <1>4, Zenon

\* A log that ends with the announcement of the postmortem tells the phase that
\* was entered just before.
LEMMA StateClosed ==
    ASSUME NEW l \in Seq(Event), l # <<>>, NEW m \in Seq(Event), Len(m) = Len(l) + 1,
           \A i \in 1..Len(l) : m[i] = l[i],
           l[Len(l)].type = "phase_entered",
           m[Len(m)].type = "phase_contract_written", m[Len(m)].phase = "postmortem"
    PROVE  State(m) = l[Len(l)].phase
<1> DEFINE entered == {i \in DOMAIN m : m[i].type = "phase_entered"}
           k == Len(l)
<1>1. k \in 1..Len(l) /\ m # <<>> /\ Len(m) = k + 1 /\ k \in Nat
  OBVIOUS
<1>2. DOMAIN m = 1..(k + 1)
  BY <1>1
<1>3. k \in entered /\ m[k] = l[k] /\ \A j \in entered : j <= k
  BY <1>1, <1>2
<1>4. (CHOOSE i \in entered : \A j \in entered : j <= i) = k
  <2>1. \A i \in entered : (\A j \in entered : j <= i) => i = k
    BY <1>2, <1>3
  <2> QED
    BY <1>3, <2>1, Zenon
<1>5. latestEnteredPhase(m) = l[k].phase
  BY <1>3, <1>4, ZenonT(30) DEF latestEnteredPhase
<1> QED
  BY <1>1, <1>5, Zenon DEF State, isTerminalEvent

\* What a call does once it has been made leaves it made.
LEMMA StepNotIdle ==
    ASSUME LoopTypeOK, NEW d \in Calls, CallStep(d) \/ \E r \in Requests : LookUp(d, r)
    PROVE  pc'[d] # "idle"
BY DEF LoopTypeOK, CallStep, TakeLock, Refused, Enter, Fail, Pause, RollBack, Exhaust, Pass,
       WriteContract, ContractFails, Complete, CompleteFails, Store, Release, LookUp, Goto,
       EndWalk, GoOn

\* Calls are not unmade and lost writes are not found again.
LEMMA FirstBefore ==
    ASSUME LoopTypeOK, LoopTypeOK', [LoopNext]_loopVars, NEW c \in Calls, FirstWalk(c)'
    PROVE  /\ FirstWalk(c) /\ dropped' = dropped
           /\ \A d \in Calls \ {c} : ~CallStep(d) /\ ~\E r \in Requests : LookUp(d, r)
<1>1. dropped' \in {dropped, dropped + 1}
  <2>1. ASSUME NEW d \in Calls, CallStep(d) PROVE dropped' \in {dropped, dropped + 1}
    BY <2>1, ZenonT(30)
       DEF CallStep, TakeLock, Refused, Enter, Fail, Pause, RollBack, Exhaust, Pass,
         WriteContract, ContractFails, Complete, CompleteFails, Store, Release, TryAppend
  <2>2. ASSUME NEW d \in Calls, NEW r \in Requests, LookUp(d, r) PROVE dropped' = dropped
    BY <2>2, Zenon DEF LookUp
  <2>3. ASSUME NEW i \in Instances, InstanceDies(i) PROVE dropped' = dropped
    BY <2>3, Zenon DEF InstanceDies
  <2>4. CASE UNCHANGED loopVars
    BY <2>4, Zenon DEF loopVars
  <2> QED
    BY <2>1, <2>2, <2>3, <2>4, Zenon DEF LoopNext
<1>2. dropped = 0 /\ dropped' = 0
  BY <1>1 DEF FirstWalk, LoopTypeOK
<1>3. \A d \in Calls \ {c} : ~CallStep(d) /\ ~\E r \in Requests : LookUp(d, r)
  BY StepNotIdle, Zenon DEF FirstWalk
<1>4. ASSUME NEW d \in Calls \ {c} PROVE pc[d] = "idle"
  <2>0. pc'[d] = "idle"
    BY Zenon DEF FirstWalk
  <2>1. CASE CallStep(c)
    BY <2>0, <2>1, ZenonT(30)
       DEF LoopTypeOK, CallStep, TakeLock, Refused, Enter, Fail, Pause, RollBack, Exhaust,
           Pass, WriteContract, ContractFails, Complete, CompleteFails, Store, Release,
           Goto, EndWalk, GoOn
  <2>2. ASSUME NEW r \in Requests, LookUp(c, r) PROVE pc[d] = "idle"
    BY <2>0, <2>2, Zenon DEF LoopTypeOK, LookUp, Goto
  <2>3. ASSUME NEW i \in Instances, InstanceDies(i) PROVE pc[d] = "idle"
    BY <2>0, <2>3, Zenon DEF InstanceDies
  <2>4. CASE UNCHANGED loopVars
    BY <2>0, <2>4, Zenon DEF loopVars
  <2> QED
    BY <1>3, <2>1, <2>2, <2>3, <2>4, Zenon DEF LoopNext
<1> QED
  BY <1>2, <1>3, <1>4, Zenon DEF FirstWalk

\* The rows of a log are numbered.
LEMMA RowAttempts ==
    ASSUME NEW l \in Seq(Event) PROVE \A d \in Rows(l) : d.attempt \in Nat
<1> SUFFICES ASSUME NEW i \in DOMAIN l PROVE l[i].attempt \in Nat
  BY Zenon DEF Rows
<1>1. l[i] \in Event
  OBVIOUS
<1> QED
  BY <1>1, Zenon DEF Event

\* A write that was not lost.
LEMMA Appended ==
    ASSUME LoopTypeOK, NEW e, TryAppend(e), dropped' = dropped PROVE log' = AppendEvent(log, e)
BY DEF LoopTypeOK, TryAppend

\* The fields of the row a call writes.
LEMMA EvFields ==
    ASSUME NEW c, NEW t
    PROVE  Ev(t, c).type = t /\ Ev(t, c).phase = current[c] /\ Ev(t, c).attempt = attempt[c]
BY Zenon DEF Ev

\* The log goes on following the call.
LEMMA FollowedStep ==
    ASSUME LoopInv, LoopTypeOK', NEW c \in Calls, Followed(c), dropped' = dropped,
           CallStep(c) \/ \E r \in Requests : LookUp(c, r)
    PROVE  Followed(c)'
<1> USE DEF Walking
<1>0. /\ LoopTypeOK /\ pc \in [Calls -> PC] /\ final \in [Calls -> Phase \cup {"failed", "none"}]
      /\ current \in [Calls -> Phase] /\ attempt \in [Calls -> Nat] /\ log \in Seq(Event)
      /\ current[c] \in Phase /\ attempt[c] \in Nat
  BY Zenon DEF LoopInv, LoopTypeOK
<1>1. ASSUME NEW r \in Requests, LookUp(c, r) PROVE Followed(c)'
  BY <1>0, <1>1, ZenonT(30) DEF Followed, LookUp, Goto
<1>2. ASSUME TakeLock(c) PROVE Followed(c)'
  <2>1. attempt[c] = 1
    BY <1>2, Zenon DEF TakeLock, LoopInv, Budget, Counted
  <2>2. log' = <<>> /\ attempt' = attempt /\ final' = final /\ pc'[c] = "enter" /\ pc[c] = "lock"
    BY <1>0, <1>2, Zenon DEF Followed, TakeLock, Goto
  <2>3. \A e \in Rows(log') : FALSE
    BY <2>2, SMTT(30) DEF Rows
  <2>4. ~(attempt'[c] > 1)
    BY <2>1, <2>2
  <2>5. final'[c] = "none"
    BY <2>2, Zenon DEF Followed
  <2> QED
    BY <2>2, <2>3, <2>4, <2>5, Zenon DEF Followed
<1>3. ASSUME Refused(c) PROVE Followed(c)'
  BY <1>0, <1>3, ZenonT(30) DEF Followed, Refused, Goto
<1>4. ASSUME Enter(c) PROVE Followed(c)'
  <2> DEFINE e == Ev("phase_entered", c)
  <2>1. attempt[c] <= MaxAttempts /\ pc[c] = "enter"
    BY <1>4, UnderTheCap, Zenon DEF Enter
  <2>2. /\ TryAppend(e) /\ pc'[c] = "work" /\ UNCHANGED final
        /\ current' = current /\ attempt' = attempt
    BY <1>0, <1>4, <2>1, LoopAssumption DEF Enter, Goto, locals
  <2>3. e \in Event /\ e.type = "phase_entered" /\ e.attempt = attempt[c]
    BY <1>0, EvType, EvFields DEF EventType
  <2>4. \A d \in Rows(log) : d.attempt < attempt[c]
    BY <2>1, Zenon DEF Followed
  <2>5. e \notin Rows(log)
    BY <1>0, <2>3, <2>4
  <2>6. log' # <<>> /\ log'[Len(log')] = e /\ Rows(log') = Rows(log) \cup {e}
    BY <1>0, <2>2, <2>3, <2>5, Appended, NewRow
  <2>7. e = Ev("phase_entered", c)'
    BY <2>2, Zenon DEF Ev
  <2>8. \A d \in Rows(log) : d.attempt \in Nat
    BY <1>0, RowAttempts, Zenon
  <2>9. final[c] = "none"
    BY <2>1, Zenon DEF Followed
  <2> HIDE DEF e
  <2>10. \A d \in Rows(log') : /\ d.attempt <= attempt'[c]
                               /\ d.attempt = attempt'[c] => d.type = "phase_entered"
    BY <1>0, <2>2, <2>3, <2>4, <2>6, <2>8
  <2> QED
    BY <2>2, <2>6, <2>7, <2>9, <2>10, Zenon DEF Followed
<1>5. ASSUME Fail(c) \/ Pause(c) \/ Exhaust(c) \/ ContractFails(c) \/ CompleteFails(c)
      PROVE  Followed(c)'
  <2>1. pc'[c] \in {"store", "release"} /\ final'[c] \in {final[c], "failed", "approved"}
    BY <1>0, <1>5, Zenon DEF Fail, Pause, Exhaust, ContractFails, CompleteFails, EndWalk, Goto
  <2>2. final[c] = "none"
    BY <1>5, Zenon DEF Followed, Fail, Pause, Exhaust, ContractFails, CompleteFails
  <2> QED
    BY <2>1, <2>2, Zenon DEF Followed
<1>6. ASSUME RollBack(c) PROVE Followed(c)'
  <2> DEFINE e == Ev("rollback", c)
  <2>1. pc[c] = "work" /\ final'[c] = "none"
    BY <1>6, Zenon DEF Followed, RollBack
  <2>2. pc'[c] = "exhaust" \/ (pc'[c] = "enter" /\ current'[c] = "approved" /\ attempt'[c] = attempt[c] + 1)
    BY <1>0, <1>6, Zenon DEF RollBack, GoOn, Goto
  <2>3. e \in Event /\ e.type = "rollback" /\ e.attempt = attempt[c] /\ TryAppend(e)
    BY <1>0, <1>6, EvType, EvFields, Zenon DEF EventType, RollBack
  <2>4. \A d \in Rows(log) : /\ d.attempt <= attempt[c]
                             /\ d.attempt = attempt[c] => d.type = "phase_entered"
    BY <2>1, Zenon DEF Followed
  <2>5. e \notin Rows(log)
    BY <2>3, <2>4, Zenon
  <2>6. /\ log' \in Seq(Event) /\ log' # <<>> /\ log'[Len(log')] = e
        /\ Rows(log') = Rows(log) \cup {e}
    BY <1>0, <2>3, <2>5, Appended, NewRow
  <2>7. State(log') = "approved"
    BY <2>3, <2>6, StateByNewest, Zenon
  <2>8. \A d \in Rows(log) : d.attempt \in Nat
    BY <1>0, RowAttempts
  <2> HIDE DEF e
  <2>9. \A d \in Rows(log') : d.attempt < attempt[c] + 1
    BY <1>0, <2>3, <2>4, <2>6, <2>8
  <2> QED
    BY <2>1, <2>2, <2>7, <2>9, ZenonT(30) DEF Followed
<1>7. ASSUME Pass(c) \/ WriteContract(c) PROVE Followed(c)'
  <2>1. /\ pc[c] \in {"work", "contract"} /\ pc'[c] \in {"contract", "event"}
        /\ log' = log /\ current' = current /\ attempt' = attempt /\ final' = final
    BY <1>0, <1>7, Zenon DEF Pass, WriteContract, Goto, locals
  <2>2. Ev("phase_entered", c)' = Ev("phase_entered", c)
    BY <2>1, Zenon DEF Ev
  <2> QED
    BY <2>1, <2>2, Zenon DEF Followed
<1>8. ASSUME Complete(c) PROVE Followed(c)'
  <2> DEFINE e == Ev("phase_contract_written", c)
  <2>1. pc[c] = "event" /\ final[c] = "none"
    BY <1>8, ZenonT(30) DEF Followed, Complete
  <2>2. /\ e \in Event /\ e.type = "phase_contract_written" /\ e.attempt = attempt[c]
        /\ e.phase = current[c] /\ log' = AppendEvent(log, e)
    BY <1>0, <1>8, EvType, EvFields, ZenonT(30) DEF EventType, Complete
  <2>3. /\ log # <<>> /\ log[Len(log)] = Ev("phase_entered", c)
        /\ \A d \in Rows(log) : /\ d.attempt <= attempt[c]
                                /\ d.attempt = attempt[c] => d.type = "phase_entered"
    BY <2>1, ZenonT(30) DEF Followed
  <2>4. e \notin Rows(log)
    BY <2>2, <2>3, Zenon
  <2>5. /\ log' \in Seq(Event) /\ log' # <<>> /\ log'[Len(log')] = e
        /\ Rows(log') = Rows(log) \cup {e}
        /\ Len(log') = Len(log) + 1 /\ \A i \in 1..Len(log) : log'[i] = log[i]
    BY <1>0, <2>2, <2>4, NewRow, ZenonT(30)
  <2>6. log[Len(log)].type = "phase_entered" /\ log[Len(log)].phase = current[c]
    <3>1. /\ Ev("phase_entered", c).type = "phase_entered"
          /\ Ev("phase_entered", c).phase = current[c]
      BY Zenon DEF Ev
    <3> QED
      BY <2>3, <3>1, Zenon
  <2>7. current[c] = "postmortem" => State(log') = "postmortem"
    BY <1>0, <2>2, <2>3, <2>5, <2>6, StateClosed
  <2>8. current[c] # "postmortem" => State(log') = nextPhase(current[c])
    BY <2>2, <2>5, StateByNewest, ZenonT(30)
  <2>9. \A d \in Rows(log) : d.attempt \in Nat
    BY <1>0, RowAttempts
  <2>10. CASE current[c] \in {opts[c].stop, "postmortem"}
    <3>1. pc'[c] = "store" /\ final'[c] = current[c]
      BY <1>0, <1>8, <2>10, ZenonT(30) DEF Complete, EndWalk, Goto
    <3> QED
      BY <2>7, <3>1, Zenon DEF Followed
  <2>11. CASE current[c] \notin {opts[c].stop, "postmortem"}
    <3>1. /\ pc'[c] = "enter" /\ current'[c] = nextPhase(current[c]) /\ attempt'[c] = attempt[c] + 1
          /\ final'[c] = "none"
      BY <1>0, <1>8, <2>1, <2>11, Zenon DEF Complete, GoOn, Goto
    <3> HIDE DEF e
    <3>2. \A d \in Rows(log') : d.attempt < attempt[c] + 1
      BY <1>0, <2>2, <2>3, <2>5, <2>9
    <3> QED
      BY <2>8, <2>11, <3>1, <3>2, Zenon DEF Followed
  <2> QED
    BY <2>10, <2>11, Zenon
<1>9. ASSUME Store(c) \/ Release(c) PROVE Followed(c)'
  BY <1>0, <1>9, Zenon DEF Followed, Store, Release, Goto
<1> QED
  BY <1>1, <1>2, <1>3, <1>4, <1>5, <1>6, <1>7, <1>8, <1>9, Zenon DEF CallStep

\* Every step keeps what the log tells of a first walk.
LEMMA FirstFollowedStep ==
    ASSUME LoopInv, LoopInv', FirstFollowed, [LoopNext]_loopVars PROVE FirstFollowed'
<1> SUFFICES ASSUME NEW c \in Calls, FirstWalk(c)' PROVE Followed(c)'
  BY Zenon DEF FirstFollowed
<1>0. LoopTypeOK /\ LoopTypeOK'
  BY Zenon DEF LoopInv
<1>1. /\ Followed(c) /\ dropped' = dropped
      /\ \A d \in Calls \ {c} : ~CallStep(d) /\ ~\E r \in Requests : LookUp(d, r)
  BY <1>0, FirstBefore, Zenon DEF FirstFollowed
<1>2. CASE CallStep(c) \/ \E r \in Requests : LookUp(c, r)
  BY <1>0, <1>1, <1>2, FollowedStep, Zenon
<1>3. ASSUME NEW i \in Instances, InstanceDies(i) PROVE Followed(c)'
  <2>1. /\ pc'[c] \in {pc[c], "done"} /\ log' = log /\ final' = final
        /\ current' = current /\ attempt' = attempt
    BY <1>3, Zenon DEF InstanceDies, locals
  <2>2. Ev("phase_entered", c)' = Ev("phase_entered", c)
    BY <2>1, Zenon DEF Ev
  <2> QED
    BY <1>1, <2>1, <2>2, Zenon DEF Followed
<1>4. CASE UNCHANGED loopVars
  <2>1. Ev("phase_entered", c)' = Ev("phase_entered", c)
    BY <1>4, Zenon DEF Ev, loopVars, locals
  <2> QED
    BY <1>1, <1>4, <2>1, ZenonT(30) DEF Followed, loopVars, locals
<1> QED
  BY <1>1, <1>2, <1>3, <1>4, Zenon DEF LoopNext

\* At every point of the first walk of an incident, State answers the phase the
\* walk is in, from the log alone; once the walk closed in postmortem it answers
\* that, for any retry budget and any number of rollbacks.
THEOREM LoopFirstWalk == LoopSpec => []FirstWalkReported
<1>1. LoopInit => FirstFollowed
  BY Zenon DEF LoopInit, FirstFollowed, Followed
<1>2. LoopInv /\ LoopInv' /\ FirstFollowed /\ [LoopNext]_loopVars => FirstFollowed'
  BY FirstFollowedStep, Zenon
<1>3. LoopInv /\ FirstFollowed => FirstWalkReported
  <2> SUFFICES ASSUME LoopInv, NEW c \in Calls, Followed(c)
               PROVE  /\ pc[c] \in {"work", "contract", "event"} => State(log) = current[c]
                      /\ pc[c] = "enter" /\ attempt[c] > 1 => State(log) = current[c]
                      /\ final[c] = "postmortem" => State(log) = "postmortem"
    BY Zenon DEF FirstFollowed, FirstWalkReported
  <2>1. log \in Seq(Event)
    BY Zenon DEF LoopInv, LoopTypeOK
  <2> QED
    BY <2>1, StateByNewest, EvFields DEF Followed
<1> QED
  BY <1>1, <1>2, <1>3, LoopInvariant, PTL DEF LoopSpec

-----------------------------------------------------------------------------
(* The loop implements the abstract phase machine.                         *)

\* The lock holder, if it walks, is the walker an observer sees.
LEMMA WalkerHoldsLock ==
    ASSUME NEW P, NEW L, \A c \in Calls : P[c] \in Walking <=> L = c
    PROVE  /\ (\E c \in Calls : P[c] \in ActivePC) <=> (L \in Calls /\ P[L] \in ActivePC)
           /\ L \in Calls /\ P[L] \in ActivePC
                 => (CHOOSE c \in Calls : P[c] \in ActivePC) = L
<1>1. \A c \in Calls : P[c] \in ActivePC => L = c
  BY Zenon DEF ActivePC, Walking
<1> QED
  BY <1>1, Zenon

\* What the observer sees, read off the lock.
Holding == lock \in Calls /\ pc[lock] \in ActivePC

\* The observer's phase and rollbacks are those of the call that holds the lock.
LEMMA Seen ==
    ASSUME LoopInv
    PROVE  /\ WalkPhase  = IF Holding THEN current[lock] ELSE "none"
           /\ WalkRolled = IF Holding THEN rollbackCount[lock] ELSE 0
<1>1. \A c \in Calls : pc[c] \in Walking <=> lock = c
  BY Zenon DEF LoopInv, LockNamesWalker
<1>2. (Walks <=> Holding) /\ (Holding => Walker = lock)
  BY <1>1, WalkerHoldsLock, SMTT(30) DEF Walks, Walker, Holding
<1> QED
  BY <1>2, Zenon DEF WalkPhase, WalkRolled

\* The same of the state after a step.
LEMMA SeenNext ==
    ASSUME LoopInv'
    PROVE  /\ WalkPhase'  = IF Holding' THEN current'[lock'] ELSE "none"
           /\ WalkRolled' = IF Holding' THEN rollbackCount'[lock'] ELSE 0
<1>1. \A c \in Calls : pc'[c] \in Walking <=> lock' = c
  BY Zenon DEF LoopInv, LockNamesWalker
<1>2. (Walks' <=> Holding') /\ (Holding' => Walker' = lock')
  BY <1>1, WalkerHoldsLock DEF Walks, Walker, Holding
<1> QED
  BY <1>2, Zenon DEF WalkPhase, WalkRolled

\* Every step of the loop is a step of the phase machine, or one it does not
\* see.
LEMMA LoopStepSimulates ==
    ASSUME LoopInv, LoopInv', [LoopNext]_loopVars
    PROVE  [PM!PMNext]_(PM!pmVars)
<1> DEFINE ph == IF Holding THEN current[lock] ELSE "none"
           rb == IF Holding THEN rollbackCount[lock] ELSE 0
           phN == IF Holding' THEN current'[lock'] ELSE "none"
           rbN == IF Holding' THEN rollbackCount'[lock'] ELSE 0
<1>1. WalkPhase = ph /\ WalkRolled = rb /\ WalkPhase' = phN /\ WalkRolled' = rbN
  BY Seen, SeenNext, Zenon
<1> USE DEF config, locals, Goto, EndWalk, GoOn
<1> DEFINE Same   == phN = ph /\ rbN = rb
           Begun  == ph = "none" /\ phN \in Phase /\ rbN = 0
           Moved  == ph \in Phase \ {"postmortem"} /\ phN = nextPhase(ph) /\ rbN = rb
           Backed == ph = "recovered" /\ rb < MaxRetryCount /\ phN = "approved"
                     /\ rbN = rb + 1
           Left   == ph /= "none" /\ phN = "none" /\ rbN = 0
<1>2. Same \/ Begun \/ Moved \/ Backed \/ Left => [PM!PMNext]_(PM!pmVars)
  <2> HIDE DEF ph, rb, phN, rbN
  <2>1. CASE Same
    BY <1>1, <2>1, Zenon DEF PM!pmVars
  <2>2. CASE Begun
    BY <1>1, <2>2, PhasesAgree, Zenon DEF PM!PMNext, PM!Begin
  <2>3. CASE Moved
    BY <1>1, <2>3, NextAgrees, Zenon DEF PM!PMNext, PM!Advance
  <2>4. CASE Backed
    BY <1>1, <2>4, Zenon DEF PM!PMNext, PM!Rollback
  <2>5. CASE Left
    BY <1>1, <2>5, Zenon DEF PM!PMNext, PM!Leave
  <2> QED
    BY <2>1, <2>2, <2>3, <2>4, <2>5, Zenon
<1>3. /\ LoopTypeOK /\ LockNamesWalker /\ Budget
      /\ \A c \in Calls : current[c] \in Phase /\ current[c] /= "none"
  BY ZenonT(30) DEF LoopInv, LoopTypeOK, Phase
<1> DEFINE Goal == Same \/ Begun \/ Moved \/ Backed \/ Left
<1>4. CASE UNCHANGED loopVars
  BY <1>2, <1>4, Zenon DEF loopVars, Holding
<1>5. ASSUME NEW c \in Calls, NEW r \in Requests, LookUp(c, r) PROVE Same
  BY <1>3, <1>5, Zenon DEF LookUp, Holding, LockNamesWalker, LoopTypeOK, Walking, ActivePC
<1>6. ASSUME NEW c \in Calls, TakeLock(c) PROVE Begun
  <2>1. ~Holding /\ lock' = c /\ pc'[c] = "enter" /\ current'[c] = opts[c].from
    BY <1>3, <1>6, LoopAssumption, Zenon DEF TakeLock, Holding, LoopTypeOK
  <2>2. opts[c].from \in Phase
    BY <1>3, Zenon DEF LoopTypeOK, Options
  <2>3. rollbackCount'[c] = 0
    BY <1>3, <1>6, Zenon DEF Budget, Counted, TakeLock
  <2> QED
    BY <2>1, <2>2, <2>3, Zenon DEF Holding, ActivePC
<1>7. ASSUME NEW c \in Calls, Refused(c) PROVE Same
  BY <1>3, <1>7, Zenon DEF Refused, Holding, LockNamesWalker, LoopTypeOK, Walking, ActivePC
<1>8. ASSUME NEW c \in Calls, pc[c] \in ActivePC
      PROVE  lock = c /\ Holding /\ ph = current[c] /\ rb = rollbackCount[c]
  BY <1>3, <1>8, ZenonT(30) DEF LockNamesWalker, Holding, ActivePC, Walking
<1>9. ASSUME NEW c \in Calls, Enter(c) \/ Pass(c) \/ WriteContract(c) PROVE Same \/ Left
  BY <1>3, <1>8, <1>9, Zenon DEF Enter, Pass, WriteContract, LoopTypeOK, Holding, ActivePC
<1>10. ASSUME NEW c \in Calls, Fail(c) \/ Pause(c) \/ ContractFails(c) \/ CompleteFails(c)
       PROVE  Left
  BY <1>3, <1>8, <1>10 DEF Fail, Pause, ContractFails, CompleteFails, LoopTypeOK,
     Holding, ActivePC
<1>11. ASSUME NEW c \in Calls, RollBack(c) PROVE Backed \/ Left
  <2>1. lock = c /\ lock' = c /\ Holding /\ ph = "recovered" /\ rb = rollbackCount[c]
        /\ rollbackCount[c] \in Nat
    BY <1>3, <1>8, <1>11, Zenon DEF RollBack, ActivePC, LoopTypeOK
  <2>2. CASE rollbackCount[c] + 1 > MaxRetryCount
    BY <1>3, <1>11, <2>1, <2>2, Zenon DEF RollBack, LoopTypeOK, Holding, ActivePC
  <2>3. CASE ~(rollbackCount[c] + 1 > MaxRetryCount)
    <3>1. pc'[c] = "enter" /\ current'[c] = "approved"
          /\ rollbackCount'[c] = rollbackCount[c] + 1
      BY <1>3, <1>11, <2>3, Zenon DEF RollBack, LoopTypeOK
    <3> QED
      BY <2>1, <2>3, <3>1, LoopAssumption DEF Holding, ActivePC
  <2> QED
    BY <2>2, <2>3, ZenonT(30)
<1>12. ASSUME NEW c \in Calls, Complete(c) PROVE Moved \/ Left
  <2>1. lock = c /\ lock' = c /\ Holding /\ ph = current[c] /\ rb = rollbackCount[c]
    BY <1>3, <1>8, <1>12, ZenonT(30) DEF Complete, ActivePC
  <2>2. CASE current[c] \in {opts[c].stop, "postmortem"}
    BY <1>3, <1>12, <2>1, <2>2, Zenon DEF Complete, LoopTypeOK, Holding, ActivePC
  <2>3. CASE current[c] \notin {opts[c].stop, "postmortem"}
    <3>1. pc'[c] = "enter" /\ current'[c] = nextPhase(current[c])
          /\ rollbackCount' = rollbackCount
      BY <1>3, <1>12, <2>3, Zenon DEF Complete, LoopTypeOK
    <3> QED
      BY <1>3, <2>1, <2>3, <3>1, ZenonT(30) DEF Holding, ActivePC
  <2> QED
    BY <2>2, <2>3, ZenonT(30)
<1>13. ASSUME NEW c \in Calls, Exhaust(c) \/ Store(c) \/ Release(c) PROVE Same
  <2>1. lock = c /\ ~Holding
    BY <1>3, <1>13, Zenon DEF Exhaust, Store, Release, LockNamesWalker, Walking, Holding, ActivePC
  <2>2. ~Holding'
    BY <1>3, <1>13, <2>1, LoopAssumption, Zenon DEF Exhaust, Store, Release, LoopTypeOK,
       Holding, ActivePC
  <2> QED
    BY <2>1, <2>2, Zenon
<1>14. ASSUME NEW i \in Instances, InstanceDies(i) PROVE Same \/ Left
  <2>1. CASE lock \in Calls /\ home[lock] = i
    BY <1>3, <1>14, <2>1, LoopAssumption, Zenon DEF InstanceDies, Holding
  <2>2. CASE ~(lock \in Calls /\ home[lock] = i)
    BY <1>14, <2>2, Zenon DEF InstanceDies, Holding
  <2> QED
    BY <2>1, <2>2, Zenon
<1> HIDE DEF Same, Begun, Moved, Backed, Left
<1> QED
  BY <1>2, <1>4, <1>5, <1>6, <1>7, <1>9, <1>10, <1>11, <1>12, <1>13, <1>14, Zenon
     DEF LoopNext, CallStep

\* For every set of calls and instances, every wiring and retry budget and
\* whatever writes fail or instances die, the loop's runs taken together are a
\* run of the phase machine (its safety part; that a walk ends is checked by
\* TLC).
THEOREM LoopImplements == LoopSpec => PM!PMSafety
<1>1. LoopInit => PM!PMInit
  BY Zenon DEF LoopInit, PM!PMInit, WalkPhase, WalkRolled, Walks, ActivePC
<1>2. LoopInv /\ LoopInv' /\ [LoopNext]_loopVars => [PM!PMNext]_(PM!pmVars)
  BY LoopStepSimulates, Zenon
<1> QED
  BY <1>1, <1>2, LoopInvariant, PTL DEF LoopSpec, PM!PMSafety
=============================================================================
