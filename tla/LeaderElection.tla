--------------------------- MODULE LeaderElection ---------------------------
(***************************************************************************)
(* Leader election for one role (roles share nothing): the electLoop and   *)
(* renewLoop of internal/pkg/leader in every instance, over the Redis key  *)
(* of internal/pkg/redislock.  Redis applies a command or script in one    *)
(* step; its answer arrives later, or is lost.  A request whose answer is  *)
(* lost has taken effect before the client gives up on it, or never does.  *)
(*                                                                         *)
(* Time is kept as what is left of each interval: key.left until the key   *)
(* expires, timer until an instance's current wait must be over.  Between  *)
(* two waits an instance's code takes no time (the guard of Tick), so a    *)
(* process that is suspended for long is outside of this model.  The flag  *)
(* running is written together with isLeader.  The context of the worker   *)
(* is cancelled by electLoop alone, after renewLoop, so that renewLoop     *)
(* never sees it done.                                                     *)
(***************************************************************************)
EXTENDS Integers

CONSTANTS
    Instances,          \* manager processes
    NoOwner,            \* the value of a key that is not set
    TTL,                \* lifetime of the key
    RenewInterval,      \* period of the renewal ticker
    StartTimeouts,      \* the waits for a worker's start that are configured
    AnswerTimeout,      \* longest wait for the answer to SET NX
    RequestTimeout,     \* context timeout of a renewal and of a release
    MaxFaults           \* bound on lost answers, failed starts and crashes

ASSUME LeaderAssumption ==
    /\ NoOwner \notin Instances
    /\ TTL \in Nat \ {0}
    /\ RenewInterval \in Nat \ {0}
    /\ StartTimeouts \subseteq Nat
    /\ AnswerTimeout \in Nat
    /\ RequestTimeout \in Nat
    /\ MaxFaults \in Nat

VARIABLES
    startTimeout,       \* the configured one, the same in every instance
    key,                \* the Redis key of the role
    inst,               \* each instance's election goroutine
    draining,           \* instances that were told to drain
    quit,               \* instances that were closed, or whose context ended
    faults

leaderVars == <<startTimeout, key, inst, draining, quit, faults>>

\* What only the environment changes.
env == <<draining, quit, faults>>

\* The states in which an instance waits for at most timer ticks, and those in
\* which it is flagged as the leader.
Timed == {"acquired", "starting", "leading", "renewed", "refused", "releasing", "released"}
Flagged == {"leading", "renewed", "refused", "releasing", "released", "down"}

Elector == [pc : Timed \cup Flagged \cup {"try", "acquire", "stopping", "exited", "crashed"},
            timer : Nat, isLeader : BOOLEAN, lost : BOOLEAN]

Idle(pc) == [pc |-> pc, timer |-> 0, isLeader |-> FALSE, lost |-> FALSE]

Free == [owner |-> NoOwner, left |-> 0]

Init ==
    /\ startTimeout \in StartTimeouts
    /\ key = Free
    /\ inst = [i \in Instances |-> Idle("try")]
    /\ draining = {}
    /\ quit = {}
    /\ faults = 0

Fault == faults < MaxFaults /\ faults' = faults + 1

\* A call made with the context of Run fails when that is done.
CallFails(i) == (i \in quit /\ UNCHANGED faults) \/ Fault

Goto(i, pc, timer) == inst' = [inst EXCEPT ![i].pc = pc, ![i].timer = timer]

-----------------------------------------------------------------------------
(* The Redis lock *)

Held(i) == [owner |-> i, left |-> TTL]

\* releaseScript: the key is deleted only by its owner.
Released(i) == IF key.owner = i THEN Free ELSE key

-----------------------------------------------------------------------------
(* electLoop *)

\* The loop ends when the instance drains, is closed or its context is done.
Exit(i) ==
    /\ inst[i].pc = "try"
    /\ i \in draining \cup quit
    /\ Goto(i, "exited", 0)
    /\ UNCHANGED <<key, env>>

\* None of these holds now: SET NX is sent.
Attempt(i) ==
    /\ inst[i].pc = "try"
    /\ i \notin draining \cup quit
    /\ Goto(i, "acquire", 0)
    /\ UNCHANGED <<key, env>>

\* SET NX finds no key and sets it.
TryAcquire(i) ==
    /\ inst[i].pc = "acquire"
    /\ key.owner = NoOwner
    /\ key' = Held(i)
    /\ Goto(i, "acquired", AnswerTimeout)
    /\ UNCHANGED env

\* ErrLockHeld, or an error: the instance backs off and tries again.  It does so
\* too when SET NX was applied and its answer is lost; it then finds the key
\* held, by itself, until that expires.
AcquireFails(i) ==
    /\ \/ inst[i].pc = "acquire" /\ key.owner # NoOwner /\ UNCHANGED faults
       \/ inst[i].pc \in {"acquire", "acquired"} /\ CallFails(i)
    /\ Goto(i, "try", 0)
    /\ UNCHANGED <<key, draining, quit>>

\* The answer arrives and the worker is started.
StartWorker(i) ==
    /\ inst[i].pc = "acquired"
    /\ Goto(i, "starting", startTimeout)
    /\ UNCHANGED <<key, env>>

\* The worker's start returned, or has taken startTimeout: either way the
\* instance is the leader from now on, and its ticker starts.
StartDone(i) ==
    /\ inst[i].pc = "starting"
    /\ inst' = [inst EXCEPT ![i] = [pc |-> "leading", timer |-> RenewInterval + RequestTimeout,
                                    isLeader |-> TRUE, lost |-> FALSE]]
    /\ UNCHANGED <<key, env>>

\* The worker's start failed: the lock is released, or is left to expire when
\* that call fails too, and the instance backs off and tries again.
StartFails(i) ==
    /\ inst[i].pc = "starting"
    /\ Fault
    /\ key' \in {key, Released(i)}
    /\ Goto(i, "try", 0)
    /\ UNCHANGED <<draining, quit>>

\* After renewLoop the flag is cleared and the worker's context is cancelled.
Demote(i) ==
    /\ inst[i].pc = "down"
    /\ inst' = [inst EXCEPT ![i].pc = "stopping", ![i].isLeader = FALSE]
    /\ UNCHANGED <<key, env>>

\* Variant: the loop ends however the leadership went.
StopDone_Exit(i) ==
    /\ inst[i].pc = "stopping"
    /\ Goto(i, "exited", 0)
    /\ UNCHANGED <<key, env>>

\* The worker's stop returned: an instance that lost the lock tries again, one
\* that resigned is done.
StopDone(i) ==
    /\ inst[i].pc = "stopping"
    /\ Goto(i, IF inst[i].lost THEN "try" ELSE "exited", 0)
    /\ UNCHANGED <<key, env>>

-----------------------------------------------------------------------------
(* renewLoop.  The timer of a leader counts to the next tick and from there on *)
(* to the end of the renewal's context.                                        *)

\* The ticker is periodic: what a renewal takes is not added to the interval.
NextTick(t) == RenewInterval + t

\* renewScript is applied: only the owner's key gets a new lifetime.
RenewApplied(i) ==
    /\ inst[i].pc = "leading"
    /\ inst[i].timer <= RequestTimeout
    /\ IF key.owner = i THEN key' = Held(i) /\ Goto(i, "renewed", inst[i].timer)
                        ELSE UNCHANGED key /\ Goto(i, "refused", inst[i].timer)
    /\ UNCHANGED env

\* Variant: draining is not looked at after a renewal.
RenewDone_NoDrain(i) ==
    /\ inst[i].pc = "renewed"
    /\ Goto(i, "leading", NextTick(inst[i].timer))
    /\ UNCHANGED <<key, env>>

\* The renewal succeeded; a draining instance resigns.
RenewDone(i) ==
    /\ inst[i].pc = "renewed"
    /\ IF i \in draining THEN Goto(i, "releasing", RequestTimeout)
                         ELSE Goto(i, "leading", NextTick(inst[i].timer))
    /\ UNCHANGED <<key, env>>

\* Variant: a renewal that got no answer is made up for by the next one.
RenewFails_Missed(i) ==
    /\ \/ inst[i].pc = "refused" /\ UNCHANGED faults
       \/ inst[i].pc = "leading" /\ inst[i].timer <= RequestTimeout /\ Fault
       \/ inst[i].pc = "renewed" /\ Fault
    /\ IF inst[i].pc = "refused"
       THEN inst' = [inst EXCEPT ![i].pc = "down", ![i].timer = 0, ![i].lost = TRUE]
       ELSE Goto(i, "leading", NextTick(inst[i].timer))
    /\ UNCHANGED <<key, draining, quit>>

\* Variant: the script's result is not looked at, only a missing answer.
RenewFails_NoResult(i) ==
    /\ \/ inst[i].pc = "refused" /\ UNCHANGED faults
       \/ inst[i].pc = "leading" /\ inst[i].timer <= RequestTimeout /\ Fault
       \/ inst[i].pc = "renewed" /\ Fault
    /\ IF inst[i].pc = "refused" THEN Goto(i, "leading", NextTick(inst[i].timer))
       ELSE inst' = [inst EXCEPT ![i].pc = "down", ![i].timer = 0, ![i].lost = TRUE]
    /\ UNCHANGED <<key, draining, quit>>

\* ErrNotOwner, or no answer, whether or not the script was applied: the
\* leadership is lost, and nothing is released.
RenewFails(i) ==
    /\ \/ inst[i].pc = "refused" /\ UNCHANGED faults
       \/ inst[i].pc = "leading" /\ inst[i].timer <= RequestTimeout /\ Fault
       \/ inst[i].pc = "renewed" /\ Fault
    /\ inst' = [inst EXCEPT ![i].pc = "down", ![i].timer = 0, ![i].lost = TRUE]
    /\ UNCHANGED <<key, draining, quit>>

\* The loop sees that the manager was closed or its context is done.
Resign(i) ==
    /\ inst[i].pc = "leading"
    /\ i \in quit
    /\ Goto(i, "releasing", RequestTimeout)
    /\ UNCHANGED <<key, env>>

\* releaseQuietly: releaseScript is applied.
ReleaseApplied(i) ==
    /\ inst[i].pc = "releasing"
    /\ key' = Released(i)
    /\ Goto(i, "released", inst[i].timer)
    /\ UNCHANGED env

\* It was answered, or it failed and the key is left to expire.
ReleaseDone(i) ==
    /\ \/ inst[i].pc = "released" /\ UNCHANGED faults
       \/ inst[i].pc = "releasing" /\ Fault
    /\ Goto(i, "down", 0)
    /\ UNCHANGED <<key, draining, quit>>

-----------------------------------------------------------------------------
(* Manager, crashes and time *)

\* By the shutdown sequence, or as the first step of ResignAll, which then waits
\* (ResignReturns below).
MarkDraining(i) ==
    /\ i \notin draining
    /\ draining' = draining \cup {i}
    /\ UNCHANGED <<key, inst, quit, faults>>

\* The context passed to Run is done.
Cancel(i) ==
    /\ i \notin quit
    /\ quit' = quit \cup {i}
    /\ UNCHANGED <<key, inst, draining, faults>>

\* Close; what can be seen between its two writes can be seen after Cancel.
Close(i) ==
    /\ i \notin quit
    /\ quit' = quit \cup {i}
    /\ draining' = draining \cup {i}
    /\ UNCHANGED <<key, inst, faults>>

Crash(i) ==
    /\ inst[i].pc \notin {"exited", "crashed"}
    /\ Fault
    /\ inst' = [inst EXCEPT ![i] = Idle("crashed")]
    /\ UNCHANGED <<key, draining, quit>>

\* Time passes when no instance's wait is over, and Redis expires the key.
Tick ==
    /\ \A i \in Instances : /\ inst[i].pc \in Timed => inst[i].timer > 0
                            /\ inst[i].pc # "down"
    /\ key' = IF key.left > 1 THEN [key EXCEPT !.left = @ - 1] ELSE Free
    /\ inst' = [i \in Instances |-> IF inst[i].pc \in Timed
                                    THEN [inst[i] EXCEPT !.timer = @ - 1] ELSE inst[i]]
    /\ UNCHANGED env

\* What an instance, and Redis for it, does by itself.
ElectorStep(i) ==
    \/ Exit(i) \/ Attempt(i) \/ TryAcquire(i) \/ AcquireFails(i)
    \/ StartWorker(i) \/ StartDone(i) \/ Demote(i) \/ StopDone(i)
    \/ RenewApplied(i) \/ RenewDone(i) \/ RenewFails(i)
    \/ Resign(i) \/ ReleaseApplied(i) \/ ReleaseDone(i)

Next ==
    /\ \/ \E i \in Instances : ElectorStep(i) \/ StartFails(i) \/ MarkDraining(i)
                               \/ Cancel(i) \/ Close(i) \/ Crash(i)
       \/ Tick
    /\ UNCHANGED startTimeout

Spec == Init /\ [][Next]_leaderVars

\* Instances go on and time passes; nothing makes failures happen.
FairSpec ==
    /\ Spec
    /\ \A i \in Instances : WF_leaderVars(ElectorStep(i) /\ UNCHANGED startTimeout)
    /\ WF_leaderVars(Tick /\ UNCHANGED startTimeout)

-----------------------------------------------------------------------------
(* Properties *)

\* The types of the election's state, the flag isLeader agreeing with the place
\* in electLoop, and a leader's wait staying below one interval and one request.
TypeOK ==
    /\ startTimeout \in StartTimeouts
    /\ key \in [owner : Instances \cup {NoOwner}, left : 0..TTL]
    /\ inst \in [Instances -> Elector]
    /\ draining \subseteq Instances
    /\ quit \subseteq Instances
    /\ faults \in 0..MaxFaults
    /\ \A i \in Instances :
         /\ inst[i].isLeader <=> inst[i].pc \in Flagged
         /\ inst[i].pc = "leading" => inst[i].timer <= RenewInterval + RequestTimeout

\* The key outlives the wait for its answer, a start that uses up its timeout,
\* the first renewal and a release.
LeaseCovers == TTL > AnswerTimeout + startTimeout + RenewInterval + 2 * RequestTimeout

\* An instance that resigned, gave up the key and has yet to clear its flag.
HandingOver(i) == inst[i].pc \in {"released", "down"} /\ ~inst[i].lost

\* IsLeader is true of one instance at a time, not counting the one that hands over.
SingleLeader ==
    \A i, j \in Instances :
        inst[i].isLeader /\ inst[j].isLeader /\ i # j => HandingOver(i) \/ HandingOver(j)

\* With a key that lives long enough for the configured start timeout, there is a
\* single leader, whatever renewals, releases and starts fail and whoever crashes:
\* electLoop raises the flag without looking at the key again.
OneLeader == LeaseCovers => SingleLeader

\* An instance loses the key by its own release or by expiry, never by what
\* another instance does: the owner check in releaseScript, which a leader whose
\* key lapsed and was taken over depends on.
OthersKeepKey ==
    [][\A i \in Instances : key.owner = i /\ key'.owner # i
          => key' = Free /\ (key.left <= 1 \/ inst'[i] # inst[i])]_leaderVars

\* A leader whose key lapsed finds out and clears its flag (renewLoop's ErrNotOwner).
StaleLeaderDemoted ==
    \A i \in Instances : (inst[i].isLeader /\ key.owner # i) ~> ~inst[i].isLeader

\* A draining instance ends up without the lock, its loop ended or crashed.
DrainCompletes ==
    \A i \in Instances :
        (i \in draining) ~> (inst[i].pc \in {"exited", "crashed"} /\ key.owner # i)

\* waitForLeaderExit: ResignAll, which marks the instance as draining, returns
\* without an error as soon as it is not flagged as leader.
ResignReturns(i) == i \in draining /\ ~inst[i].isLeader

\* "After the call IsLeaderAny returns false": an instance is not flagged as
\* leader any more once ResignAll can have returned for it.
ResignedFollows ==
    [][\A i \in Instances : ResignReturns(i) => ~inst'[i].isLeader]_leaderVars

\* Able to lead: neither crashed nor asked to go.
Candidate(i) == inst[i].pc # "crashed" /\ i \notin draining \cup quit

\* While there is a candidate a leader emerges, after crashes and lost answers too.
LeaderEmerges ==
    (\E i \in Instances : Candidate(i))
        ~> (\E i \in Instances : inst[i].isLeader) \/ ~(\E i \in Instances : Candidate(i))
=============================================================================
