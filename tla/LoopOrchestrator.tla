-------------------------- MODULE LoopOrchestrator --------------------------
(***************************************************************************)
(* The seven-phase incident loop (internal/manager/biz/loop): Run calls    *)
(* made on one incident, through any number of manager instances that      *)
(* share its event log, its contracts and the database advisory lock       *)
(* "loop:<incident>".  Each instance also keeps results by idempotency     *)
(* key in memory.                                                          *)
(*                                                                         *)
(* A Run is cut where another actor or a crash can come in between: the    *)
(* cache look-up, the lock, and every write to the log or the contracts.   *)
(* What a phase worker answers is a choice among the outcomes its code has *)
(* in the wiring at hand.                                                  *)
(***************************************************************************)
EXTENDS Integers, Sequences

CONSTANTS
    Calls,          \* calls of Orchestrator.Run on the incident
    Instances,      \* manager processes
    Homes,          \* ways the calls may be spread over the instances
    Requests,       \* the options the entry points pass to Run
    Keys,           \* idempotency keys
    Wirings,        \* what main.go or a test injects in the workers
    MaxRetryCount,  \* 3 in the code
    MaxAttempts,    \* 32 in the code
    MaxFaults       \* bound: failed writes and crashed instances, together

VARIABLES
    wiring,         \* [llm, gate, approval]: see Outcomes
    home,           \* the instance each call is made to
    log,            \* loop_event_log of the incident, oldest first
    contracts,      \* phases with a row in loop_contract
    lock,           \* the call that holds the advisory lock, or "free"
    cache,          \* instance -> keys in resultCache
    pc,             \* where in Run each call is
    opts,           \* its RunOptions: [from, stop, key]
    current, attempt, rollbackCount,    \* its locals in walkPhases
    final,          \* the FinalPhase walkPhases gave it, or "none"
    dropped, deaths \* writes that failed and instances that died, so far

config   == <<wiring, home>>
locals   == <<current, attempt, rollbackCount>>
loopVars == <<config, log, contracts, lock, cache, pc, opts, locals, final,
              dropped, deaths>>

\* allForwardPhases.
ForwardPhases == <<"detected", "correlated", "investigated", "critiqued",
                   "approved", "recovered", "postmortem">>

Phase == {"detected", "correlated", "investigated", "critiqued",
          "approved", "recovered", "postmortem"}

\* Position of a phase in allForwardPhases.
Rank == [detected |-> 1, correlated |-> 2, investigated |-> 3, critiqued |-> 4,
         approved |-> 5, recovered |-> 6, postmortem |-> 7]

\* Variant: the approval is skipped.
nextPhase_NoApproval(p) == IF p = "critiqued" THEN "recovered" ELSE ForwardPhases[Rank[p] + 1]

\* nextPhase with a passed verifier, for the phases that have one.
nextPhase(p) == ForwardPhases[Rank[p] + 1]

EventType == {"phase_entered", "phase_contract_written", "phase_failed",
              "phase_paused", "rollback", "retry_exhausted"}

\* A row of the log, told apart by the fields of its idempotency key.
Event == [type : EventType, phase : Phase, attempt : Nat]

Walking == {"enter", "work", "exhaust", "contract", "event", "store", "release"}

PC == {"idle", "lock", "done"} \cup Walking

Options == [from : Phase, stop : Phase \cup {"none"}, key : Keys \cup {"none"}]

ASSUME LoopAssumption ==
    /\ MaxRetryCount \in Nat /\ MaxAttempts \in Nat
    /\ MaxFaults \in Nat
    /\ "free" \notin Calls /\ "none" \notin Keys
    /\ Homes \subseteq [Calls -> Instances]
    /\ Requests \subseteq Options
    /\ Wirings \subseteq [llm : BOOLEAN, gate : BOOLEAN, approval : BOOLEAN]
    /\ 7 + 2 * MaxRetryCount <= MaxAttempts
-----------------------------------------------------------------------------
(* The phase workers.                                                      *)

\* The detected worker: the LLM call errors, or answers outside the schema
\* (a stub the Verifier rejects), or yields a DetectedEvent.
Detected == {"error", "reject", "ok"}

\* The correlated worker plans from the DetectedEvent contract.
Correlated(c) == IF "detected" \in c THEN {"error", "reject", "ok"} ELSE {"error"}

\* The investigated worker: tools or LLM may err, its Verifier never plainly
\* rejects.
Investigated == {"error", "ok"}

\* The critiqued worker needs an upstream contract, which the walk gives to
\* the recovered phase only.
Critiqued == {"error"}

\* The approved worker: the pause hook errs, asks for a pause, or lets pass;
\* the hook wired by default always lets pass.
Approved(gate) == IF gate THEN {"error", "pause", "ok"} ELSE {"ok"}

\* The recovered worker loads contract row 1 as the ApprovalDecision, then
\* asks verify_recovery.
Recovered(approval) == IF approval THEN {"error", "reject", "ok"} ELSE {"error"}

\* BasePhaseWorker: an empty plan, an empty result, a passed verdict.
Base == {"ok"}

\* DefaultPhaseWorkerFactory: who runs phase p.
Outcomes(w, p, c) ==
    CASE p = "approved"   -> Approved(w.gate)
      [] p = "recovered"  -> Recovered(w.approval)
      [] p = "postmortem" -> Base
      [] ~w.llm /\ p \notin {"approved", "recovered", "postmortem"} -> Base
      [] w.llm /\ p = "detected"     -> Detected
      [] w.llm /\ p = "correlated"   -> Correlated(c)
      [] w.llm /\ p = "investigated" -> Investigated
      [] w.llm /\ p = "critiqued"    -> Critiqued

\* Phases whose passed result carries a contract payload to persist.
BearsContract(w, p) == w.llm /\ p \in {"detected", "correlated", "investigated"}
-----------------------------------------------------------------------------
(* The event log and what is read back from it.                            *)

\* The rows of the log.
Rows(l) == {l[i] : i \in DOMAIN l}

\* EventRepoDB.AppendEvent: a duplicate key leaves the row that is there.
AppendEvent(l, e) == IF e \in Rows(l) THEN l ELSE Append(l, e)

Ev(t, c) == [type |-> t, phase |-> current[c], attempt |-> attempt[c]]

CanFail == dropped + deaths < MaxFaults

\* appendEvent: the row is written, or the failure is only logged.
TryAppend(e) ==
    \/ log' = AppendEvent(log, e) /\ UNCHANGED dropped
    \/ CanFail /\ dropped' = dropped + 1 /\ UNCHANGED log

\* Variant: a phase whose contract is written is still the current one.
recoverFromEvents_Same(e) ==
    CASE e.type = "retry_exhausted" -> "failed"
      [] e.type = "rollback"        -> "approved"
      [] e.type \notin {"retry_exhausted", "rollback"} -> e.phase

\* recoverFromEvents on a log whose newest row is e.
recoverFromEvents(e) ==
    CASE e.type = "retry_exhausted" -> "failed"
      [] e.type = "rollback"        -> "approved"
      [] e.type = "phase_contract_written" -> nextPhase(e.phase)
      [] e.type \in {"phase_entered", "phase_failed", "phase_paused"} -> e.phase

\* latestEnteredPhase: the phase of the newest phase_entered row, or "".
latestEnteredPhase(l) ==
    LET entered == {i \in DOMAIN l : l[i].type = "phase_entered"}
    IN  IF entered = {} THEN "" ELSE l[CHOOSE i \in entered : \A j \in entered : j <= i].phase

isTerminalEvent(e) == e.type = "phase_contract_written" /\ e.phase = "postmortem"

\* Orchestrator.State: the current phase an outside reader is given.
State(l) ==
    IF l = <<>> THEN ""
    ELSE IF isTerminalEvent(l[Len(l)]) THEN latestEnteredPhase(l)
    ELSE recoverFromEvents(l[Len(l)])
-----------------------------------------------------------------------------
(* Run.                                                                    *)

LoopInit ==
    /\ wiring \in Wirings
    /\ home \in Homes
    /\ log = <<>>
    /\ contracts = {}
    /\ lock = "free"
    /\ cache = [i \in Instances |-> {}]
    /\ pc = [c \in Calls |-> "idle"]
    /\ opts \in [Calls -> {[from |-> "detected", stop |-> "none", key |-> "none"]}]
    /\ current = [c \in Calls |-> "detected"]
    /\ attempt = [c \in Calls |-> 1]
    /\ rollbackCount = [c \in Calls |-> 0]
    /\ final = [c \in Calls |-> "none"]
    /\ dropped = 0 /\ deaths = 0

Goto(c, p) == pc' = [pc EXCEPT ![c] = p]

\* walkPhases returns p as the FinalPhase.
EndWalk(c, p) == Goto(c, "store") /\ final' = [final EXCEPT ![c] = p]

\* The walk goes round its loop again, at phase p.
GoOn(c, p) ==
    /\ Goto(c, "enter")
    /\ current' = [current EXCEPT ![c] = p]
    /\ attempt' = [attempt EXCEPT ![c] = @ + 1]

\* Run up to the cache look-up: a cached result is returned as it is.
LookUp(c, r) ==
    /\ pc[c] = "idle"
    /\ opts' = [opts EXCEPT ![c] = r]
    /\ Goto(c, IF r.key \in cache[home[c]] THEN "done" ELSE "lock")
    /\ UNCHANGED <<config, log, contracts, lock, cache, locals, final, dropped,
                   deaths>>

\* acquireLock succeeds and the walk begins at the resolved phase.
TakeLock(c) ==
    /\ pc[c] = "lock"
    /\ lock = "free"
    /\ lock' = c
    /\ current' = [current EXCEPT ![c] = opts[c].from]
    /\ Goto(c, "enter")
    /\ UNCHANGED <<config, log, contracts, cache, opts, attempt,
                   rollbackCount, final,
                   dropped, deaths>>

\* acquireLock times out (ErrLockBusy) or its query fails.
Refused(c) ==
    /\ pc[c] = "lock"
    /\ Goto(c, "done")
    /\ UNCHANGED <<config, log, contracts, lock, cache, opts, locals, final,
                   dropped, deaths>>

\* Top of the walk's loop: the cap, then phase_entered.
Enter(c) ==
    /\ pc[c] = "enter"
    /\ IF attempt[c] > MaxAttempts
       THEN EndWalk(c, current[c]) /\ UNCHANGED <<log, dropped>>
       ELSE TryAppend(Ev("phase_entered", c)) /\ Goto(c, "work") /\ UNCHANGED final
    /\ UNCHANGED <<config, contracts, lock, cache, opts, locals, deaths>>

Verdicts(c) == Outcomes(wiring, current[c], contracts)

\* Planner, Executor or Verifier erred, or the Verifier rejected a phase that
\* cannot roll back.
Fail(c) ==
    /\ pc[c] = "work"
    /\ \/ "error" \in Verdicts(c)
       \/ "reject" \in Verdicts(c) /\ current[c] /= "recovered"
    /\ TryAppend(Ev("phase_failed", c))
    /\ EndWalk(c, "failed")
    /\ UNCHANGED <<config, contracts, lock, cache, opts, locals, deaths>>

\* The approved phase asks for a human: the walk stops there.
Pause(c) ==
    /\ pc[c] = "work"
    /\ "pause" \in Verdicts(c)
    /\ TryAppend(Ev("phase_paused", c))
    /\ EndWalk(c, "approved")
    /\ UNCHANGED <<config, contracts, lock, cache, opts, locals, deaths>>

\* The recovery check did not pass: back to approved, or out of retries.
RollBack(c) ==
    /\ pc[c] = "work"
    /\ current[c] = "recovered"
    /\ "reject" \in Verdicts(c)
    /\ TryAppend(Ev("rollback", c))
    /\ rollbackCount' = [rollbackCount EXCEPT ![c] = @ + 1]
    /\ IF rollbackCount[c] + 1 > MaxRetryCount
       THEN Goto(c, "exhaust") /\ UNCHANGED <<current, attempt>>
       ELSE GoOn(c, "approved")
    /\ UNCHANGED <<config, contracts, lock, cache, opts, final, deaths>>

\* retry_exhausted is written and the walk ends in failed.
Exhaust(c) ==
    /\ pc[c] = "exhaust"
    /\ TryAppend(Ev("retry_exhausted", c))
    /\ EndWalk(c, "failed")
    /\ UNCHANGED <<config, contracts, lock, cache, opts, locals, deaths>>

\* Variant: the event is written in the place of the contract.
Pass_EventFirst(c) ==
    /\ pc[c] = "work"
    /\ "ok" \in Verdicts(c)
    /\ Goto(c, "event")
    /\ UNCHANGED <<config, log, contracts, lock, cache, opts, locals, final,
                   dropped, deaths>>

\* The Verifier passed.
Pass(c) ==
    /\ pc[c] = "work"
    /\ "ok" \in Verdicts(c)
    /\ Goto(c, IF BearsContract(wiring, current[c]) THEN "contract" ELSE "event")
    /\ UNCHANGED <<config, log, contracts, lock, cache, opts, locals, final,
                   dropped, deaths>>

\* writeInvestigatedContract and writeSideEffectContracts.
WriteContract(c) ==
    /\ pc[c] = "contract"
    /\ contracts' = contracts \cup {current[c]}
    /\ Goto(c, "event")
    /\ UNCHANGED <<config, log, lock, cache, opts, locals, final, dropped,
                   deaths>>

\* The contract write failed; phase_failed goes to the same database, which
\* may refuse it too.
ContractFails(c) ==
    /\ pc[c] = "contract"
    /\ CanFail
    /\ dropped' = dropped + 1
    /\ log' \in {log, AppendEvent(log, Ev("phase_failed", c))}
    /\ EndWalk(c, "failed")
    /\ UNCHANGED <<config, contracts, lock, cache, opts, locals, deaths>>

\* appendEventStrict(phase_contract_written), then StopAfterPhase, the
\* terminal phase, or the next phase.
Complete(c) ==
    /\ pc[c] = "event"
    /\ log' = AppendEvent(log, Ev("phase_contract_written", c))
    /\ IF current[c] \in {opts[c].stop, "postmortem"}
       THEN EndWalk(c, current[c]) /\ UNCHANGED <<current, attempt>>
       ELSE GoOn(c, nextPhase(current[c])) /\ UNCHANGED final
    /\ UNCHANGED <<config, contracts, lock, cache, opts, rollbackCount, dropped,
                   deaths>>

\* The strict append failed: Run returns the error and caches nothing.
CompleteFails(c) ==
    /\ pc[c] = "event"
    /\ CanFail
    /\ dropped' = dropped + 1
    /\ Goto(c, "release")
    /\ UNCHANGED <<config, log, contracts, lock, cache, opts, locals, final,
                   deaths>>

\* The result is kept under its key, whatever phase it ended in.
Store(c) ==
    /\ pc[c] = "store"
    /\ cache' = [cache EXCEPT ![home[c]] = @ \cup ({opts[c].key} \ {"none"})]
    /\ Goto(c, "release")
    /\ UNCHANGED <<config, log, contracts, lock, opts, locals, final, dropped,
                   deaths>>

\* The deferred release, and Run returns.
Release(c) ==
    /\ pc[c] = "release"
    /\ lock' = "free"
    /\ Goto(c, "done")
    /\ UNCHANGED <<config, log, contracts, cache, opts, locals, final, dropped,
                   deaths>>

\* An instance dies: its calls with it, its memory, and the database session
\* that held the lock.
InstanceDies(i) ==
    /\ CanFail
    /\ deaths' = deaths + 1
    /\ pc' = [c \in Calls |-> IF home[c] = i /\ pc[c] /= "idle" THEN "done" ELSE pc[c]]
    /\ cache' = [cache EXCEPT ![i] = {}]
    /\ lock' = IF lock \in Calls /\ home[lock] = i THEN "free" ELSE lock
    /\ UNCHANGED <<config, log, contracts, opts, locals, final, dropped>>

\* What a call does once it has been made; each of these ends, by the lock
\* timeout, the LLM and Verifier deadlines and the database's answer.
CallStep(c) ==
    \/ TakeLock(c) \/ Refused(c) \/ Enter(c) \/ Fail(c) \/ Pause(c) \/ RollBack(c)
    \/ Exhaust(c) \/ Pass(c) \/ WriteContract(c) \/ ContractFails(c)
    \/ Complete(c) \/ CompleteFails(c) \/ Store(c) \/ Release(c)

LoopNext ==
    \/ \E c \in Calls : \/ \E r \in Requests : LookUp(c, r)
                        \/ CallStep(c)
    \/ \E i \in Instances : InstanceDies(i)

LoopSpec == LoopInit /\ [][LoopNext]_loopVars

\* A call that can go on does, one or another.
LoopFairSpec == LoopSpec /\ WF_loopVars(\E c \in Calls : CallStep(c))
-----------------------------------------------------------------------------
(* Properties.                                                             *)

\* Every variable stays in its type; the log holds well-formed rows.
LoopTypeOK ==
    /\ wiring \in [llm : BOOLEAN, gate : BOOLEAN, approval : BOOLEAN]
    /\ home \in [Calls -> Instances]
    /\ log \in Seq(Event)
    /\ contracts \subseteq Phase
    /\ lock \in Calls \cup {"free"}
    /\ cache \in [Instances -> SUBSET Keys]
    /\ pc \in [Calls -> PC]
    /\ opts \in [Calls -> Options]
    /\ current \in [Calls -> Phase]
    /\ attempt \in [Calls -> Nat]
    /\ rollbackCount \in [Calls -> Nat]
    /\ final \in [Calls -> Phase \cup {"failed", "none"}]
    /\ dropped \in Nat /\ deaths \in Nat /\ dropped + deaths <= MaxFaults

\* The advisory lock does what acquireLock is for: whatever calls come in,
\* through whatever instances, and whichever instances die, no two calls walk
\* the incident at once, and the lock is never left with a call that is not
\* walking.
WalkExclusive ==
    /\ \A c, d \in Calls : pc[c] \in Walking /\ pc[d] \in Walking => c = d
    /\ lock \in Calls => pc[lock] \in Walking

\* Contract first, event second: a phase_contract_written row for a phase that
\* has a contract is only in the log once the contract row is there, so the
\* next phase's Planner, or a reader after a crash, never looks for a contract
\* that was announced and not written.
ContractBeforeEvent ==
    \A e \in Rows(log) :
       e.type = "phase_contract_written" /\ BearsContract(wiring, e.phase)
          => e.phase \in contracts

\* walkPhases: attempt counts the phases gone through and each rollback costs
\* two, so the retry budget ends every walk and the defensive cap of
\* maxAttempts iterations never does.
CapUnreached ==
    \A c \in Calls : pc[c] \in Walking =>
       /\ attempt[c] = Rank[current[c]] - Rank[opts[c].from] + 1
                             + 2 * rollbackCount[c]
                             - (IF rollbackCount[c] > MaxRetryCount THEN 2 ELSE 0)
       /\ rollbackCount[c] <= MaxRetryCount + 1
       /\ attempt[c] <= MaxAttempts

\* Only c has ever run on the incident, and the database has lost nothing.
FirstWalk(c) == dropped = 0 /\ \A d \in Calls \ {c} : pc[d] = "idle"

\* The first walk of an incident can be followed, and picked up after a crash,
\* from the log alone: at every point of it State answers the phase the walk
\* is in, and the phase it closed in once it is over.
FirstWalkReported ==
    \A c \in Calls : FirstWalk(c) =>
       /\ pc[c] \in {"work", "contract", "event"} => State(log) = current[c]
       /\ pc[c] = "enter" /\ attempt[c] > 1 => State(log) = current[c]
       /\ final[c] = "postmortem" => State(log) = "postmortem"

\* The walk an outside observer sees: the one call between lock and result.
ActivePC   == {"enter", "work", "contract", "event"}
Walks      == \E c \in Calls : pc[c] \in ActivePC
Walker     == CHOOSE c \in Calls : pc[c] \in ActivePC
WalkPhase  == IF Walks THEN current[Walker] ELSE "none"
WalkRolled == IF Walks THEN rollbackCount[Walker] ELSE 0

PM == INSTANCE PhaseMachine WITH phase <- WalkPhase, rollbacks <- WalkRolled

\* All instances together implement the abstract phase machine: one walk at a
\* time, phases in order, at most MaxRetryCount rollbacks, and an end.
ImplementsPhaseMachine == PM!PMSpec
=============================================================================
