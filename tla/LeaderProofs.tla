---------------------------- MODULE LeaderProofs ----------------------------
(***************************************************************************)
(* Proofs about LeaderElection: its type invariant, that another instance  *)
(* never takes the key from its owner, and that there is one leader when   *)
(* the key lives long enough for the configured timeouts.  And about the   *)
(* scheduler that the leader runs, CronScheduler, for any number of        *)
(* managers and flows, any cron specs and any next-occurrence function     *)
(* that goes forward.                                                      *)
(***************************************************************************)
EXTENDS LeaderElection, CronScheduler, TLAPS

\* The election goroutine of an instance and its requests to Redis.
ActorStep(i) == ElectorStep(i) \/ StartFails(i) \/ Crash(i)

\* What the manager's callers do.
CallerStep(i) == MarkDraining(i) \/ Cancel(i) \/ Close(i)

-----------------------------------------------------------------------------
(* Types *)

\* The conjuncts of TypeOK about one instance.
InstOK(i) ==
    /\ inst[i] \in Elector
    /\ inst[i].isLeader <=> inst[i].pc \in Flagged
    /\ inst[i].pc = "leading" => inst[i].timer <= RenewInterval + RequestTimeout
    /\ inst[i].pc \in {"renewed", "refused"} => inst[i].timer <= RequestTimeout

\* TypeOK, made inductive: a renewal in flight has at most its timeout left.
TypeInv == TypeOK /\ \A i \in Instances : InstOK(i)

\* A step of one instance's goroutine leaves every other one alone.
LEMMA ActorFrame ==
    ASSUME inst \in [Instances -> Elector], NEW i \in Instances, ActorStep(i)
    PROVE  /\ inst' = [inst EXCEPT ![i] = inst'[i]]
           /\ \A j \in Instances \ {i} : inst'[j] = inst[j]
           /\ draining' = draining /\ quit' = quit
PROOF BY Zenon DEF ActorStep, ElectorStep, StartFails, Crash, Exit, Attempt, TryAcquire,
             AcquireFails,
         StartWorker, StartDone, Demote, StopDone, RenewApplied, RenewDone, RenewFails, Resign,
         ReleaseApplied, ReleaseDone, Goto, env, Elector

\* A step of one instance's goroutine keeps that instance well typed.
LEMMA ActorType ==
    ASSUME TypeInv, NEW i \in Instances, ActorStep(i), LeaderAssumption
    PROVE  InstOK(i)'
<1> USE DEF InstOK, Elector, Timed, Flagged
<1>1. /\ inst \in [Instances -> Elector] /\ InstOK(i) /\ startTimeout \in Nat
      /\ RenewInterval \in Nat /\ RequestTimeout \in Nat /\ AnswerTimeout \in Nat
    BY Zenon DEF TypeInv, TypeOK, LeaderAssumption
<1>2. CASE Exit(i) \/ Attempt(i)
    BY <1>1, <1>2 DEF Exit, Attempt, Goto
<1>3. CASE TryAcquire(i) \/ AcquireFails(i)
    BY <1>1, <1>3 DEF TryAcquire, AcquireFails, Goto
<1>4. CASE StartWorker(i)
    BY <1>1, <1>4, Zenon DEF StartWorker, Goto
<1>5. CASE StartDone(i)
    BY <1>1, <1>5 DEF StartDone
<1>6. CASE StartFails(i) \/ Demote(i) \/ StopDone(i)
    BY <1>1, <1>6 DEF StartFails, Demote, StopDone, Goto
<1>7. CASE RenewApplied(i)
    BY <1>1, <1>7 DEF RenewApplied, Goto
<1>8. CASE RenewDone(i)
    BY <1>1, <1>8 DEF RenewDone, Goto, NextTick
<1>9. CASE RenewFails(i)
    BY <1>1, <1>9, Zenon DEF RenewFails
<1>10. CASE Resign(i) \/ ReleaseApplied(i) \/ ReleaseDone(i)
    BY <1>1, <1>10 DEF Resign, ReleaseApplied, ReleaseDone, Goto
<1>11. CASE Crash(i)
    BY <1>1, <1>11, Zenon DEF Crash, Idle
<1>12. QED
    BY <1>2, <1>3, <1>4, <1>5, <1>6, <1>7, <1>8, <1>9, <1>10, <1>11, Zenon DEF ActorStep,
           ElectorStep

\* What a step of an instance's goroutine may do to the key: nothing, set it when
\* it is not set, and renew or release it when it is the instance's own.
LEMMA ActorKey ==
    ASSUME TypeInv, NEW i \in Instances, ActorStep(i), LeaderAssumption
    PROVE  \/ key' = key
           \/ key.owner = NoOwner /\ key' = Held(i) /\ inst[i].pc = "acquire"
           \/ key.owner = i /\ key' = Held(i) /\ inst[i].pc = "leading"
           \/ /\ key.owner = i /\ key' = Free
              /\ inst[i].pc \in {"starting", "releasing"} /\ inst'[i] # inst[i]
<1>1. inst \in [Instances -> Elector] /\ inst[i] \in Elector
    BY Zenon DEF TypeInv, TypeOK
<1>2. CASE TryAcquire(i)
    BY <1>2, Zenon DEF TryAcquire
<1>3. CASE RenewApplied(i)
    BY <1>3, Zenon DEF RenewApplied
<1>4. CASE StartFails(i)
    <2>1. inst[i].pc = "starting" /\ inst'[i].pc = "try" /\ key' \in {key, Released(i)}
        BY <1>1, <1>4, Zenon DEF StartFails, Goto, Elector
    <2>2. QED
        BY <2>1, Zenon DEF Released
<1>5. CASE ReleaseApplied(i)
    <2>1. inst[i].pc = "releasing" /\ inst'[i].pc = "released" /\ key' = Released(i)
        BY <1>1, <1>5, Zenon DEF ReleaseApplied, Goto, Elector
    <2>2. QED
        BY <2>1, Zenon DEF Released
<1>6. CASE \/ Exit(i) \/ Attempt(i) \/ AcquireFails(i) \/ StartWorker(i) \/ StartDone(i)
           \/ Demote(i) \/ StopDone(i) \/ RenewDone(i) \/ RenewFails(i) \/ Resign(i)
           \/ ReleaseDone(i) \/ Crash(i)
    BY <1>6, Zenon DEF Exit, Attempt, AcquireFails, StartWorker, StartDone, Demote, StopDone,
           RenewDone,
       RenewFails, Resign, ReleaseDone, Crash
<1>7. QED
    BY <1>2, <1>3, <1>4, <1>5, <1>6, Zenon DEF ActorStep, ElectorStep

\* The key stays well typed, and so does the count of faults.
LEMMA ActorRest ==
    ASSUME TypeInv, NEW i \in Instances, ActorStep(i), LeaderAssumption
    PROVE  /\ key' \in [owner : Instances \cup {NoOwner}, left : 0..TTL]
           /\ faults' \in 0..MaxFaults
<1>1. key \in [owner : Instances \cup {NoOwner}, left : 0..TTL] /\ faults \in 0..MaxFaults
    BY Zenon DEF TypeInv, TypeOK
<1>2. /\ Held(i) \in [owner : Instances \cup {NoOwner}, left : 0..TTL]
      /\ Free \in [owner : Instances \cup {NoOwner}, left : 0..TTL]
    BY DEF Held, Free, LeaderAssumption
<1>3. key' \in [owner : Instances \cup {NoOwner}, left : 0..TTL]
    BY <1>1, <1>2, ActorKey, Zenon
<1>4. faults' = faults \/ Fault
    BY Zenon DEF ActorStep, ElectorStep, StartFails, Crash, Exit, Attempt, TryAcquire, AcquireFails,
       StartWorker, StartDone, Demote, StopDone, RenewApplied, RenewDone, RenewFails, Resign,
       ReleaseApplied, ReleaseDone, env, CallFails
<1>5. faults' \in 0..MaxFaults
    BY <1>1, <1>4 DEF Fault, LeaderAssumption
<1>6. QED
    BY <1>3, <1>5, Zenon

\* The passing of time: what it does to each instance and to the key.
LEMMA TickEffect ==
    ASSUME TypeInv, Tick, LeaderAssumption
    PROVE  /\ inst' \in [Instances -> Elector]
           /\ \A j \in Instances :
                \/ /\ inst[j].pc \in Timed /\ inst[j].timer > 0
                   /\ inst'[j] = [inst[j] EXCEPT !.timer = inst[j].timer - 1]
                \/ inst[j].pc \notin Timed /\ inst[j].pc # "down" /\ inst'[j] = inst[j]
           /\ key' \in [owner : Instances \cup {NoOwner}, left : 0..TTL]
           /\ key.left > 1 => key'.owner = key.owner /\ key'.left = key.left - 1
           /\ key.left <= 1 => key' = Free
<1>1. /\ inst \in [Instances -> Elector]
      /\ key \in [owner : Instances \cup {NoOwner}, left : 0..TTL] /\ TTL \in Nat
    BY Zenon DEF TypeInv, TypeOK, LeaderAssumption
<1>2. /\ \A i \in Instances : (inst[i].pc \in Timed => inst[i].timer > 0) /\ inst[i].pc # "down"
      /\ key' = IF key.left > 1 THEN [key EXCEPT !.left = key.left - 1] ELSE Free
      /\ inst' = [i \in Instances |-> IF inst[i].pc \in Timed
                    THEN [inst[i] EXCEPT !.timer = inst[i].timer - 1] ELSE inst[i]]
    BY Zenon DEF Tick
<1>3. ASSUME NEW j \in Instances
      PROVE  /\ inst'[j] \in Elector
             /\ \/ /\ inst[j].pc \in Timed /\ inst[j].timer > 0
                   /\ inst'[j] = [inst[j] EXCEPT !.timer = inst[j].timer - 1]
                \/ inst[j].pc \notin Timed /\ inst[j].pc # "down" /\ inst'[j] = inst[j]
    BY <1>1, <1>2 DEF Elector
<1>4. inst' \in [Instances -> Elector]
    BY <1>2, <1>3, Zenon
<1>5. /\ key' \in [owner : Instances \cup {NoOwner}, left : 0..TTL]
      /\ key.left > 1 => key'.owner = key.owner /\ key'.left = key.left - 1
      /\ key.left <= 1 => key' = Free
    BY <1>1, <1>2 DEF Free
<1>6. QED
    BY <1>3, <1>4, <1>5, Zenon

\* TypeInv is preserved by every step.
LEMMA TypeStep ==
    ASSUME TypeInv, [Next]_leaderVars, LeaderAssumption
    PROVE  TypeInv'
<1> USE DEF TypeInv
<1>1. TypeOK
    BY Zenon
<1>2. ASSUME NEW i \in Instances, ActorStep(i), startTimeout' = startTimeout  PROVE TypeInv'
    <2>1. /\ inst' = [inst EXCEPT ![i] = inst'[i]]
          /\ \A j \in Instances \ {i} : inst'[j] = inst[j]
          /\ draining' = draining /\ quit' = quit
        BY <1>1, <1>2, ActorFrame, Zenon DEF TypeOK
    <2>2. InstOK(i)'
        BY <1>2, ActorType, Zenon
    <2>3. \A j \in Instances : InstOK(j)'
        BY <2>1, <2>2, Zenon DEF InstOK
    <2>4. inst' \in [Instances -> Elector]
        BY <1>1, <2>1, <2>3, Zenon DEF TypeOK, InstOK
    <2>5. key' \in [owner : Instances \cup {NoOwner}, left : 0..TTL] /\ faults' \in 0..MaxFaults
        BY <1>2, ActorRest, Zenon
    <2>6. QED
        BY <1>1, <1>2, <2>1, <2>3, <2>4, <2>5, Zenon DEF TypeOK, InstOK
<1>3. ASSUME NEW i \in Instances, CallerStep(i), startTimeout' = startTimeout  PROVE TypeInv'
    <2>1. /\ draining' \in {draining, draining \cup {i}} /\ quit' \in {quit, quit \cup {i}}
          /\ key' = key /\ inst' = inst /\ faults' = faults
        BY <1>3, Zenon DEF CallerStep, MarkDraining, Cancel, Close
    <2>2. QED
        BY <1>1, <1>3, <2>1, Zenon DEF TypeOK, InstOK
<1>4. ASSUME Tick, startTimeout' = startTimeout  PROVE TypeInv'
    <2>1. draining' = draining /\ quit' = quit /\ faults' = faults
        BY <1>4, Zenon DEF Tick, env
    <2>2. ASSUME NEW j \in Instances  PROVE InstOK(j)'
        <3>1. inst'[j] \in Elector /\ inst[j] \in Elector /\ InstOK(j)
            BY <1>1, <1>4, TickEffect, Zenon DEF TypeOK
        <3>2. /\ inst'[j].pc = inst[j].pc /\ inst'[j].isLeader = inst[j].isLeader
              /\ inst'[j].timer <= inst[j].timer
            <4>1. \/ inst'[j] = [inst[j] EXCEPT !.timer = inst[j].timer - 1]
                  \/ inst'[j] = inst[j]
                BY <1>4, TickEffect, Zenon
            <4>2. QED
                BY <3>1, <4>1 DEF Elector
        <3>3. QED
            BY <3>1, <3>2 DEF InstOK, Elector, LeaderAssumption
    <2>3. QED
        BY <1>1, <1>4, <2>1, <2>2, TickEffect, Zenon DEF TypeOK, InstOK
<1>5. CASE UNCHANGED leaderVars
    BY <1>5, Zenon DEF leaderVars, TypeOK, InstOK
<1>6. QED
    BY <1>2, <1>3, <1>4, <1>5, Zenon DEF Next, ActorStep, CallerStep

\* Initially every instance is about to try and the key is free.
LEMMA TypeInit ==
    ASSUME Init, LeaderAssumption
    PROVE  TypeInv
PROOF BY DEF Init, TypeInv, TypeOK, InstOK, Elector, Idle, Free, Timed, Flagged, LeaderAssumption

\* The state of the election always has its type, the flag isLeader agrees with
\* the place in electLoop, and a leader never waits longer than one interval and
\* one request for its renewal.
THEOREM LeaderTypes == Spec => []TypeOK
<1>1. Init => TypeInv
    BY TypeInit, LeaderAssumption, Zenon
<1>2. TypeInv /\ [Next]_leaderVars => TypeInv'
    BY TypeStep, LeaderAssumption, Zenon
<1>3. TypeInv => TypeOK
    BY Zenon DEF TypeInv
<1>4. QED
    BY <1>1, <1>2, <1>3, PTL DEF Spec

-----------------------------------------------------------------------------
(* The owner's key *)

\* The key is lost by expiry or by its owner's own step, in every step.
LEMMA KeyStep ==
    ASSUME TypeInv, [Next]_leaderVars, LeaderAssumption,
           NEW i \in Instances, key.owner = i, key'.owner # i
    PROVE  key' = Free /\ (key.left <= 1 \/ inst'[i] # inst[i])
<1>1. i # NoOwner
    BY Zenon DEF LeaderAssumption
<1>2. ASSUME NEW k \in Instances, ActorStep(k)
      PROVE  key' = Free /\ (key.left <= 1 \/ inst'[i] # inst[i])
    <2>1. \/ key' = key
          \/ key.owner = NoOwner
          \/ key.owner = k /\ key' = Held(k)
          \/ key.owner = k /\ key' = Free /\ inst'[k] # inst[k]
        BY <1>2, ActorKey, Zenon
    <2>2. QED
        BY <1>1, <2>1 DEF Held
<1>3. ASSUME NEW k \in Instances, CallerStep(k)  PROVE FALSE
    BY <1>3, Zenon DEF CallerStep, MarkDraining, Cancel, Close
<1>4. ASSUME Tick  PROVE key' = Free /\ (key.left <= 1 \/ inst'[i] # inst[i])
    <2>1. key.left \in Int
        BY DEF TypeInv, TypeOK
    <2>2. QED
        BY <1>4, <2>1, TickEffect
<1>5. CASE UNCHANGED leaderVars
    BY <1>5, Zenon DEF leaderVars
<1>6. QED
    BY <1>2, <1>3, <1>4, <1>5, Zenon DEF Next, ActorStep, CallerStep

\* An instance loses the key by its own release or by expiry: no instance, and no
\* leader whose own key has lapsed, takes or deletes the key of another.
THEOREM LeaderKeyKept == Spec => OthersKeepKey
<1>1. Init => TypeInv
    BY TypeInit, LeaderAssumption
<1>2. TypeInv /\ [Next]_leaderVars => TypeInv'
    BY TypeStep, LeaderAssumption
<1>3. TypeInv /\ [Next]_leaderVars
        => [\A i \in Instances : key.owner = i /\ key'.owner # i
              => key' = Free /\ (key.left <= 1 \/ inst'[i] # inst[i])]_leaderVars
    BY KeyStep, LeaderAssumption, Zenon
<1>4. QED
    BY <1>1, <1>2, <1>3, PTL DEF Spec, OthersKeepKey

-----------------------------------------------------------------------------
(* One leader *)

\* How long the key must still live, at least, in each state of its holder: the
\* rest of the current wait and all the waits that may follow it before the key
\* is renewed or given up.  An instance whose renewal was refused held no key, and
\* the states of a leader that has not lost the lock are not marked as lost.
Lease(i) ==
    /\ inst[i].pc = "acquired" => /\ key.owner = i
            /\ key.left > inst[i].timer + startTimeout + RenewInterval + 2 * RequestTimeout
    /\ inst[i].pc = "starting" => /\ key.owner = i
            /\ key.left > inst[i].timer + RenewInterval + 2 * RequestTimeout
    /\ inst[i].pc = "leading" => key.owner = i /\ key.left > inst[i].timer + RequestTimeout
    /\ inst[i].pc = "renewed" => /\ key.owner = i
            /\ key.left > inst[i].timer + RenewInterval + RequestTimeout
    /\ inst[i].pc = "releasing" => key.owner = i /\ key.left > inst[i].timer
    /\ inst[i].pc = "down" /\ inst[i].lost => key.owner = i
    /\ inst[i].pc # "refused"
    /\ inst[i].pc \in {"leading", "renewed", "releasing", "released"} => ~inst[i].lost

\* The inductive invariant.
LeaseInv == TypeInv /\ (LeaseCovers => \A i \in Instances : Lease(i))

\* A lease is about one instance and the key alone.
LEMMA LeaseFrame ==
    ASSUME NEW j \in Instances, Lease(j), inst'[j] = inst[j], key' = key,
           startTimeout' = startTimeout
    PROVE  Lease(j)'
PROOF BY DEF Lease

\* An instance that does not own the key has a lease whatever happens to the key.
LEMMA LeaseOfOther ==
    ASSUME NEW j \in Instances, Lease(j), inst'[j] = inst[j], key.owner # j
    PROVE  Lease(j)'
PROOF BY Zenon DEF Lease

\* A step of an instance's goroutine keeps that instance's lease.
LEMMA LeaseActor ==
    ASSUME TypeInv, LeaseCovers, NEW i \in Instances, Lease(i), ActorStep(i),
           startTimeout' = startTimeout, LeaderAssumption
    PROVE  Lease(i)'
<1>1. /\ inst \in [Instances -> Elector] /\ inst[i] \in Elector /\ InstOK(i)
      /\ startTimeout \in Nat /\ RenewInterval \in Nat /\ RequestTimeout \in Nat
      /\ AnswerTimeout \in Nat /\ TTL \in Nat
      /\ key \in [owner : Instances \cup {NoOwner}, left : 0..TTL]
      /\ TTL > AnswerTimeout + startTimeout + RenewInterval + 2 * RequestTimeout
    BY Zenon DEF TypeInv, TypeOK, LeaderAssumption, LeaseCovers
<1>2. CASE Exit(i) \/ Attempt(i) \/ AcquireFails(i) \/ StartFails(i)
    <2>1. inst'[i].pc \in {"exited", "acquire", "try"}
        BY <1>1, <1>2 DEF Exit, Attempt, AcquireFails, StartFails, Goto, Elector
    <2>2. QED
        BY <2>1, Zenon DEF Lease
<1>3. CASE TryAcquire(i)
    <2>1. inst'[i].pc = "acquired" /\ inst'[i].timer = AnswerTimeout /\ key' = Held(i)
        BY <1>1, <1>3, Zenon DEF TryAcquire, Goto, Elector
    <2>2. QED
        BY <1>1, <2>1, Zenon DEF Lease, Held
<1>4. CASE StartWorker(i)
    <2>1. /\ inst[i].pc = "acquired" /\ key' = key
          /\ inst'[i].pc = "starting" /\ inst'[i].timer = startTimeout
        BY <1>1, <1>4, Zenon DEF StartWorker, Goto, Elector
    <2>2. QED
        BY <1>1, <2>1 DEF Lease, Elector
<1>5. CASE StartDone(i)
    <2>1. /\ inst[i].pc = "starting" /\ key' = key /\ inst'[i].pc = "leading"
          /\ inst'[i].timer = RenewInterval + RequestTimeout /\ ~inst'[i].lost
        BY <1>1, <1>5, Zenon DEF StartDone
    <2>2. QED
        BY <1>1, <2>1 DEF Lease, Elector
<1>6. CASE Demote(i) \/ StopDone(i) \/ Crash(i)
    <2>1. inst'[i].pc \in {"stopping", "exited", "try", "crashed"}
        BY <1>1, <1>6 DEF Demote, StopDone, Crash, Goto, Idle, Elector
    <2>2. QED
        BY <2>1, Zenon DEF Lease
<1>7. CASE RenewApplied(i)
    <2>1. inst[i].pc = "leading" /\ key.owner = i /\ inst[i].timer <= RequestTimeout
        BY <1>7, Zenon DEF RenewApplied, Lease
    <2>2. /\ inst'[i].pc = "renewed" /\ inst'[i].timer = inst[i].timer
          /\ inst'[i].lost = inst[i].lost /\ key' = Held(i)
        BY <1>1, <1>7, <2>1 DEF RenewApplied, Goto, Elector
    <2>3. QED
        BY <1>1, <2>1, <2>2 DEF Lease, Held, Elector
<1>8. CASE RenewDone(i)
    <2>1. inst[i].pc = "renewed" /\ key' = key /\ inst'[i].lost = inst[i].lost
        BY <1>1, <1>8 DEF RenewDone, Goto, Elector
    <2>2. \/ inst'[i].pc = "releasing" /\ inst'[i].timer = RequestTimeout
          \/ inst'[i].pc = "leading" /\ inst'[i].timer = RenewInterval + inst[i].timer
        BY <1>1, <1>8 DEF RenewDone, Goto, NextTick, Elector
    <2>3. QED
        BY <1>1, <2>1, <2>2 DEF Lease, Elector
<1>9. CASE RenewFails(i)
    <2>1. inst[i].pc \in {"leading", "renewed"} /\ key' = key /\ inst'[i].pc = "down"
        BY <1>1, <1>9, Zenon DEF RenewFails, Lease, Elector
    <2>2. QED
        BY <2>1, Zenon DEF Lease
<1>10. CASE Resign(i)
    <2>1. /\ inst[i].pc = "leading" /\ key' = key /\ inst'[i].lost = inst[i].lost
          /\ inst'[i].pc = "releasing" /\ inst'[i].timer = RequestTimeout
        BY <1>1, <1>10, Zenon DEF Resign, Goto, Elector
    <2>2. QED
        BY <1>1, <2>1 DEF Lease, Elector
<1>11. CASE ReleaseApplied(i)
    <2>1. inst[i].pc = "releasing" /\ inst'[i].pc = "released" /\ inst'[i].lost = inst[i].lost
        BY <1>1, <1>11, Zenon DEF ReleaseApplied, Goto, Elector
    <2>2. QED
        BY <2>1, Zenon DEF Lease
<1>12. CASE ReleaseDone(i)
    <2>1. /\ inst[i].pc \in {"released", "releasing"} /\ inst'[i].pc = "down"
          /\ inst'[i].lost = inst[i].lost
        BY <1>1, <1>12, Zenon DEF ReleaseDone, Goto, Elector
    <2>2. QED
        BY <2>1, Zenon DEF Lease
<1>13. QED
    BY <1>2, <1>3, <1>4, <1>5, <1>6, <1>7, <1>8, <1>9, <1>10, <1>11, <1>12, Zenon
       DEF ActorStep, ElectorStep

\* Time runs off the key and off its holder's wait alike.
LEMMA LeaseTick ==
    ASSUME TypeInv, NEW j \in Instances, Lease(j), Tick, startTimeout' = startTimeout,
           startTimeout \in Nat, LeaderAssumption
    PROVE  Lease(j)'
<1>1. /\ inst[j] \in Elector /\ startTimeout \in Nat /\ RenewInterval \in Nat
      /\ RequestTimeout \in Nat
      /\ key \in [owner : Instances \cup {NoOwner}, left : 0..TTL] /\ TTL \in Nat
    BY Zenon DEF TypeInv, TypeOK, LeaderAssumption
<1>2. /\ key.left > 1 => key'.owner = key.owner /\ key'.left = key.left - 1
      /\ \/ /\ inst[j].pc \in Timed /\ inst[j].timer > 0
            /\ inst'[j] = [inst[j] EXCEPT !.timer = inst[j].timer - 1]
         \/ inst[j].pc \notin Timed /\ inst[j].pc # "down" /\ inst'[j] = inst[j]
    BY TickEffect, Zenon
<1>3. CASE inst[j].pc \notin Timed
    BY <1>2, <1>3, Zenon DEF Lease, Timed
<1>4. CASE inst[j].pc \in Timed
    <2>1. /\ inst[j].timer > 0 /\ inst'[j].pc = inst[j].pc /\ inst'[j].lost = inst[j].lost
          /\ inst'[j].timer = inst[j].timer - 1
        BY <1>1, <1>2, <1>4, Zenon DEF Elector
    <2>2. CASE inst[j].pc = "released"
        BY <2>1, <2>2, Zenon DEF Lease
    <2>3. CASE inst[j].pc # "released"
        <3>1. key.left > inst[j].timer /\ inst[j].timer \in Nat /\ key.left \in Int
            BY <1>1, <1>4, <2>3 DEF Lease, Timed, Elector
        <3>2. key'.owner = key.owner /\ key'.left = key.left - 1
            BY <1>2, <2>1, <3>1
        <3>3. QED
            BY <1>1, <2>1, <3>1, <3>2 DEF Lease
    <2>4. QED
        BY <2>2, <2>3, Zenon
<1>5. QED
    BY <1>3, <1>4, Zenon

\* LeaseInv is preserved by every step.
LEMMA LeaseStep ==
    ASSUME LeaseInv, [Next]_leaderVars, LeaderAssumption
    PROVE  LeaseInv'
<1>1. TypeInv /\ TypeInv'
    BY TypeStep, Zenon DEF LeaseInv
<1>2. startTimeout' = startTimeout /\ startTimeout \in Nat
    BY <1>1, Zenon DEF Next, leaderVars, TypeInv, TypeOK, LeaderAssumption
<1>3. SUFFICES ASSUME LeaseCovers', NEW j \in Instances  PROVE Lease(j)'
    BY <1>1, Zenon DEF LeaseInv
<1>4. LeaseCovers /\ \A i \in Instances : Lease(i)
    BY <1>2, <1>3, Zenon DEF LeaseCovers, LeaseInv
<1>5. ASSUME NEW i \in Instances, ActorStep(i)  PROVE Lease(j)'
    <2>1. CASE i = j
        BY <1>1, <1>2, <1>4, <1>5, <2>1, LeaseActor, Zenon
    <2>2. CASE i # j
        <3>1. inst'[j] = inst[j]
            BY <1>1, <1>5, <2>2, ActorFrame, Zenon DEF TypeInv, TypeOK
        <3>2. key' = key \/ key.owner # j
            BY <1>1, <1>5, <2>2, ActorKey, Zenon DEF LeaderAssumption
        <3>3. QED
            BY <1>2, <1>4, <3>1, <3>2, LeaseFrame, LeaseOfOther, Zenon
    <2>3. QED
        BY <2>1, <2>2, Zenon
<1>6. ASSUME NEW i \in Instances, CallerStep(i)  PROVE Lease(j)'
    <2>1. key' = key /\ inst' = inst
        BY <1>6, Zenon DEF CallerStep, MarkDraining, Cancel, Close
    <2>2. QED
        BY <1>2, <1>4, <2>1, LeaseFrame, Zenon
<1>7. ASSUME Tick  PROVE Lease(j)'
    BY <1>1, <1>2, <1>4, <1>7, LeaseTick, Zenon
<1>8. CASE UNCHANGED leaderVars
    BY <1>2, <1>4, <1>8, LeaseFrame, Zenon DEF leaderVars
<1>9. QED
    BY <1>5, <1>6, <1>7, <1>8, Zenon DEF Next, ActorStep, CallerStep

\* Two flagged instances that are not handing over would both own the key.
LEMMA LeaseSingle ==
    ASSUME LeaseInv
    PROVE  OneLeader
<1>1. SUFFICES ASSUME LeaseCovers, NEW i \in Instances, NEW j \in Instances, i # j,
                      inst[i].isLeader, inst[j].isLeader, ~HandingOver(i), ~HandingOver(j)
               PROVE  FALSE
    BY Zenon DEF OneLeader, SingleLeader
<1>2. ASSUME NEW k \in Instances, inst[k].isLeader, ~HandingOver(k)  PROVE key.owner = k
    <2>1. inst[k].pc \in Flagged /\ Lease(k)
        BY <1>1, <1>2, Zenon DEF LeaseInv, TypeInv, InstOK
    <2>2. QED
        BY <1>2, <2>1, Zenon DEF Flagged, Lease, HandingOver
<1>3. QED
    BY <1>1, <1>2, Zenon

\* When the key outlives the answer to SET NX, a start that uses up its timeout,
\* one renewal interval and two requests, two instances are never both leader,
\* apart from one that has resigned and is about to clear its flag: for any number
\* of instances and of failures.
THEOREM LeaderIsOne == Spec => []OneLeader
<1>1. Init => LeaseInv
    <2>1. Init => TypeInv
        BY TypeInit, LeaderAssumption
    <2>2. Init => \A i \in Instances : Lease(i)
        <3>1. ASSUME Init, NEW i \in Instances  PROVE inst[i].pc = "try"
            BY <3>1, Zenon DEF Init, Idle
        <3>2. QED
            BY <3>1, Zenon DEF Lease
    <2>3. QED
        BY <2>1, <2>2, Zenon DEF LeaseInv
<1>2. LeaseInv /\ [Next]_leaderVars => LeaseInv'
    BY LeaseStep, LeaderAssumption
<1>3. LeaseInv => OneLeader
    BY LeaseSingle, Zenon
<1>4. QED
    BY <1>1, <1>2, <1>3, PTL DEF Spec

-----------------------------------------------------------------------------
(* The scheduler.                                                          *)

\* The types the argument needs.
Typed ==
    /\ now \in Times
    /\ flow \in [Flows -> [enabled : BOOLEAN, period : Periods]]
    /\ cursor \in [Flows -> Int]
    /\ mgr \in [Managers -> MgrPC]
    /\ cancelled \in [Managers -> BOOLEAN]
    /\ next \in [Managers -> [Flows -> Int]]
    /\ tickNow \in [Managers -> Times]
    /\ at \in [Managers -> Flows]
    /\ due \in [Managers -> Int]
    /\ last \in [Flows -> [occurrence : Int, when : Int]]

\* The loop of m has not been told to stop.
Runs(m) == mgr[m] \in InLoop /\ ~cancelled[m]

\* Time only goes forward: a tick, and a run, is of a time that was; an
\* occurrence is run when it is due.
Forward ==
    /\ \A m \in Managers : /\ tickNow[m] <= now
                           /\ mgr[m] \notin InLoop => ~cancelled[m]
                           /\ mgr[m] = "trigger" => due[m] # Never
                           /\ due[m] # Never => due[m] <= tickNow[m]
    /\ \A f \in Flows : last[f].occurrence <= last[f].when /\ last[f].when <= now

\* What the managers have to agree on as long as the history is clean: one loop
\* runs; neither the table nor its memory names a time at or before a run; and a
\* run it is about to start is later than the last one and earlier than the
\* entry that takes its place.
Agreed ==
    /\ \A m, n \in Managers : Runs(m) /\ Runs(n) => m = n
    /\ \A f \in Flows : cursor[f] # Never => last[f].when < cursor[f]
    /\ \A m \in Managers, f \in Flows : Runs(m) =>
         /\ next[m][f] # Never => last[f].when < next[m][f]
         /\ mgr[m] # "idle" => last[f].when <= tickNow[m]
    /\ \A m \in Managers : Runs(m) =>
         /\ mgr[m] \in {"persist", "trigger"} /\ due[m] # Never =>
              last[at[m]].when < due[m] /\ tickNow[m] < next[m][at[m]]
         /\ mgr[m] = "trigger" /\ cursor[at[m]] # Never => tickNow[m] < cursor[at[m]]

CronInv == Typed /\ Forward /\ (clean => Agreed)
-----------------------------------------------------------------------------

\* The flow an idle tick shows is one of the flows.
LEMMA AnyFlowFact == AnyFlow \in Flows
BY CronAssumption, Zenon DEF AnyFlow

\* Every step keeps the types.
LEMMA TypedKept ==
    ASSUME Typed, [CronNext]_cronVars PROVE Typed'
<1> USE CronAssumption, NextAssumption, AnyFlowFact DEF tables, tickVars, Goes, InLoop, Never
<1>1. CASE UNCHANGED cronVars
  BY <1>1, Zenon DEF Typed, MgrPC, Times, cronVars
<1>2. ASSUME PassTime PROVE Typed'
  BY <1>2 DEF Typed, MgrPC, Times, PassTime
<1>3. ASSUME NEW f \in Flows, NEW e \in BOOLEAN, NEW p \in Periods, EditFlow(f, e, p) PROVE Typed'
  BY <1>3, Zenon DEF Typed, MgrPC, Times, EditFlow
<1>4. ASSUME NEW m \in Managers, Boot(m) PROVE Typed'
  BY <1>4, Zenon DEF Typed, MgrPC, Times, Boot
<1>5. ASSUME NEW m \in Managers, RecordMissed(m) PROVE Typed'
  BY <1>5, Zenon DEF Typed, MgrPC, Times, RecordMissed
<1>6. ASSUME NEW m \in Managers, Lead(m) PROVE Typed'
  BY <1>6 DEF Typed, MgrPC, Times, Lead, Loaded, Exposed
<1>7. ASSUME NEW m \in Managers, LoseKey(m) PROVE Typed'
  BY <1>7, Zenon DEF Typed, MgrPC, Times, LoseKey, CronFault
<1>8. ASSUME NEW m \in Managers, WorkerCancel(m) PROVE Typed'
  BY <1>8, Zenon DEF Typed, MgrPC, Times, WorkerCancel
<1>9. ASSUME NEW m \in Managers, LoopExits(m) PROVE Typed'
  BY <1>9, Zenon DEF Typed, MgrPC, Times, LoopExits
<1>10. ASSUME NEW m \in Managers, BeginTick(m) PROVE Typed'
  BY <1>10, Zenon DEF Typed, MgrPC, Times, BeginTick
<1>11. ASSUME NEW m \in Managers, NEW f \in Flows, Visit(m, f) PROVE Typed'
  BY <1>11 DEF Typed, MgrPC, Times, Visit, IsDue, NextFire
<1>12. ASSUME NEW m \in Managers, Persist(m) PROVE Typed'
  BY <1>12 DEF Typed, MgrPC, Times, Persist
<1>13. ASSUME NEW m \in Managers, PersistFails(m) PROVE Typed'
  BY <1>13, Zenon DEF Typed, MgrPC, Times, PersistFails, CronFault
<1>14. ASSUME NEW m \in Managers, Trigger(m) PROVE Typed'
  BY <1>14 DEF Typed, MgrPC, Times, Trigger
<1>15. ASSUME NEW m \in Managers, TriggerFails(m) PROVE Typed'
  BY <1>15 DEF Typed, MgrPC, Times, TriggerFails, CronFault
<1>16. ASSUME NEW m \in Managers, Forget(m) PROVE Typed'
  BY <1>16 DEF Typed, MgrPC, Times, Forget
<1>17. ASSUME NEW m \in Managers, DeleteStale(m) PROVE Typed'
  BY <1>17 DEF Typed, MgrPC, Times, DeleteStale, TickEnds
<1>18. ASSUME NEW m \in Managers, LoadFails(m) PROVE Typed'
  BY <1>18, Zenon DEF Typed, MgrPC, Times, LoadFails, Exposed, CronFault
<1>19. ASSUME NEW m \in Managers, DeleteFails(m) PROVE Typed'
  BY <1>19 DEF Typed, MgrPC, Times, DeleteFails, TickEnds, CronFault
<1>20. ASSUME NEW m \in Managers, ManagerDies(m) PROVE Typed'
  BY <1>20 DEF Typed, MgrPC, Times, ManagerDies, TickEnds, CronFault
<1> QED
  BY <1>1, <1>2, <1>3, <1>4, <1>5, <1>6, <1>7, <1>8, <1>9, <1>10, <1>11, <1>12, <1>13, <1>14,
     <1>15, <1>16, <1>17, <1>18, <1>19, <1>20, Zenon DEF CronNext, LoopStep, Faults

\* Time goes forward.
LEMMA ForwardKept ==
    ASSUME Typed, Forward, [CronNext]_cronVars PROVE Forward'
<1> USE CronAssumption, NextAssumption, AnyFlowFact DEF tables, tickVars, Goes, InLoop, Never
<1>1. CASE UNCHANGED cronVars
  BY <1>1, Zenon DEF Typed, Forward, Times, cronVars
<1>2. ASSUME PassTime PROVE Forward'
  BY <1>2 DEF Typed, Forward, Times, PassTime
<1>3. ASSUME NEW f \in Flows, NEW e \in BOOLEAN, NEW p \in Periods, EditFlow(f, e, p) PROVE Forward'
  BY <1>3, Zenon DEF Typed, Forward, Times, EditFlow
<1>4. ASSUME NEW m \in Managers, Boot(m) PROVE Forward'
  BY <1>4, Zenon DEF Typed, Forward, Times, Boot
<1>5. ASSUME NEW m \in Managers, RecordMissed(m) PROVE Forward'
  BY <1>5, Zenon DEF Typed, Forward, Times, RecordMissed
<1>6. ASSUME NEW m \in Managers, Lead(m) PROVE Forward'
  BY <1>6, Zenon DEF Typed, Forward, Times, Lead, Loaded, Exposed
<1>7. ASSUME NEW m \in Managers, LoseKey(m) PROVE Forward'
  BY <1>7, Zenon DEF Typed, Forward, Times, LoseKey, CronFault
<1>8. ASSUME NEW m \in Managers, WorkerCancel(m) PROVE Forward'
  BY <1>8, Zenon DEF Typed, Forward, Times, WorkerCancel
<1>9. ASSUME NEW m \in Managers, LoopExits(m) PROVE Forward'
  BY <1>9, Zenon DEF Typed, Forward, Times, LoopExits
<1>10. ASSUME NEW m \in Managers, BeginTick(m) PROVE Forward'
  BY <1>10 DEF Typed, Forward, Times, BeginTick
<1>11. ASSUME NEW m \in Managers, NEW f \in Flows, Visit(m, f) PROVE Forward'
  BY <1>11, Zenon DEF Typed, Forward, Times, Visit, IsDue, NextFire
<1>12. ASSUME NEW m \in Managers, Persist(m) PROVE Forward'
  BY <1>12, Zenon DEF Typed, Forward, Times, Persist
<1>13. ASSUME NEW m \in Managers, PersistFails(m) PROVE Forward'
  BY <1>13, Zenon DEF Typed, Forward, Times, PersistFails, CronFault
<1>14. ASSUME NEW m \in Managers, Trigger(m) PROVE Forward'
  BY <1>14, Zenon DEF Typed, Forward, Times, Trigger
<1>15. ASSUME NEW m \in Managers, TriggerFails(m) PROVE Forward'
  BY <1>15, Zenon DEF Typed, Forward, Times, TriggerFails, CronFault
<1>16. ASSUME NEW m \in Managers, Forget(m) PROVE Forward'
  BY <1>16, Zenon DEF Typed, Forward, Times, Forget
<1>17. ASSUME NEW m \in Managers, DeleteStale(m) PROVE Forward'
  BY <1>17 DEF Typed, Forward, Times, DeleteStale, TickEnds
<1>18. ASSUME NEW m \in Managers, LoadFails(m) PROVE Forward'
  BY <1>18, Zenon DEF Typed, Forward, Times, LoadFails, Exposed, CronFault
<1>19. ASSUME NEW m \in Managers, DeleteFails(m) PROVE Forward'
  BY <1>19 DEF Typed, Forward, Times, DeleteFails, TickEnds, CronFault
<1>20. ASSUME NEW m \in Managers, ManagerDies(m) PROVE Forward'
  BY <1>20 DEF Typed, Forward, Times, ManagerDies, TickEnds, CronFault
<1> QED
  BY <1>1, <1>2, <1>3, <1>4, <1>5, <1>6, <1>7, <1>8, <1>9, <1>10, <1>11, <1>12, <1>13, <1>14,
     <1>15, <1>16, <1>17, <1>18, <1>19, <1>20, Zenon DEF CronNext, LoopStep, Faults

\* What the managers agree on is kept by every step that leaves the history clean.
LEMMA AgreedKept ==
    ASSUME Typed, Forward, clean => Agreed, clean', [CronNext]_cronVars PROVE Agreed'
<1> USE CronAssumption, NextAssumption, AnyFlowFact DEF tables, tickVars, Goes, InLoop, Never
<1>1. CASE UNCHANGED cronVars
  BY <1>1, Zenon DEF Typed, Forward, Agreed, Runs, Times, cronVars
<1>2. ASSUME PassTime PROVE Agreed'
  BY <1>2, Zenon DEF Typed, Forward, Agreed, Runs, Times, PassTime
<1>3. ASSUME NEW f \in Flows, NEW e \in BOOLEAN, NEW p \in Periods, EditFlow(f, e, p) PROVE Agreed'
  BY <1>3, Zenon DEF Typed, Forward, Agreed, Runs, Times, EditFlow
<1>4. ASSUME NEW m \in Managers, Boot(m) PROVE Agreed'
  BY <1>4, ZenonT(30) DEF Typed, Forward, Agreed, Runs, Times, Boot
<1>5. ASSUME NEW m \in Managers, RecordMissed(m) PROVE Agreed'
  BY <1>5 DEF Typed, Forward, Agreed, Runs, Times, RecordMissed
<1>6. ASSUME NEW m \in Managers, Lead(m) PROVE Agreed'
  BY <1>6, ZenonT(30) DEF Typed, Forward, Agreed, Runs, Times, Lead, Loaded, Exposed
<1>7. ASSUME NEW m \in Managers, LoseKey(m) PROVE Agreed'
  BY <1>7, Zenon DEF Typed, Forward, Agreed, Runs, Times, LoseKey, CronFault
<1>8. ASSUME NEW m \in Managers, WorkerCancel(m) PROVE Agreed'
  BY <1>8, Zenon DEF Typed, Forward, Agreed, Runs, Times, WorkerCancel
<1>9. ASSUME NEW m \in Managers, LoopExits(m) PROVE Agreed'
  BY <1>9 DEF Typed, Forward, Agreed, Runs, Times, LoopExits
<1>10. ASSUME NEW m \in Managers, BeginTick(m) PROVE Agreed'
  BY <1>10 DEF Typed, Forward, Agreed, Runs, Times, BeginTick
<1>11. ASSUME NEW m \in Managers, NEW f \in Flows, Visit(m, f) PROVE Agreed'
  <2>0. Agreed
    BY <1>11, Zenon DEF Visit
  <2>1. /\ UNCHANGED <<cursor, last, tickNow, cancelled>> /\ mgr[m] = "scan"
        /\ mgr'[m] = "persist" /\ at'[m] = f
        /\ \A n \in Managers \ {m} : /\ mgr'[n] = mgr[n] /\ at'[n] = at[n]
                                     /\ due'[n] = due[n] /\ next'[n] = next[n]
        /\ \A g \in Flows \ {f} : next'[m][g] = next[m][g]
    BY <1>11, Zenon DEF Typed, Visit, tables
  <2>2. next[m][f] \in Int /\ tickNow[m] \in Nat /\ NextAfter(flow[f].period, tickNow[m]) \in Int
    BY CronAssumption DEF Typed, Times
  <2>3. /\ next'[m][f] \in Int
        /\ next'[m][f] = next[m][f] \/ tickNow[m] < next'[m][f]
        /\ due'[m] # Never => due'[m] = next[m][f] /\ tickNow[m] < next'[m][f]
    BY <1>11, <2>2, CronAssumption, Zenon DEF Typed, Visit, IsDue, NextFire, Times
  <2>4. \A n \in Managers : Runs(n)' <=> Runs(n)
    BY <2>1, Zenon DEF Runs, InLoop
  <2>5. \A g \in Flows : last[g].when \in Int
    BY Zenon DEF Typed
  <2>6. \A n \in Managers, g \in Flows : Runs(n)' =>
          /\ next'[n][g] # Never => last[g].when < next'[n][g]
          /\ mgr'[n] # "idle" => last[g].when <= tickNow[n]
    <3> SUFFICES ASSUME NEW n \in Managers, NEW g \in Flows, Runs(n)'
                 PROVE  /\ next'[n][g] # Never => last[g].when < next'[n][g]
                        /\ mgr'[n] # "idle" => last[g].when <= tickNow[n]
      BY Zenon
    <3>1. /\ next[n][g] # Never => last[g].when < next[n][g]
          /\ mgr[n] # "idle" => last[g].when <= tickNow[n]
      BY <2>0, <2>4, Zenon DEF Agreed
    <3>2. CASE n = m /\ g = f
      BY <2>1, <2>2, <2>3, <2>5, <3>1, <3>2, SMTT(30)
    <3>3. CASE n # m \/ g # f
      BY <2>1, <3>1, <3>3, Zenon
    <3> QED
      BY <3>2, <3>3, Zenon
  <2>7. \A n \in Managers : Runs(n)' =>
          /\ mgr'[n] \in {"persist", "trigger"} /\ due'[n] # Never =>
               last[at'[n]].when < due'[n] /\ tickNow[n] < next'[n][at'[n]]
          /\ mgr'[n] = "trigger" /\ cursor[at'[n]] # Never => tickNow[n] < cursor[at'[n]]
    BY <2>0, <2>1, <2>2, <2>3, <2>4, <2>5, SMTT(30) DEF Agreed, Typed
  <2> QED
    BY <2>0, <2>1, <2>4, <2>6, <2>7, Zenon DEF Agreed
<1>12. ASSUME NEW m \in Managers, Persist(m) PROVE Agreed'
  BY <1>12 DEF Typed, Forward, Agreed, Runs, Times, Persist
<1>13. ASSUME NEW m \in Managers, PersistFails(m) PROVE Agreed'
  BY <1>13, ZenonT(30) DEF Typed, Forward, Agreed, Runs, Times, PersistFails, CronFault
<1>14. ASSUME NEW m \in Managers, Trigger(m) PROVE Agreed'
  BY <1>14 DEF Typed, Forward, Agreed, Runs, Times, Trigger
<1>15. ASSUME NEW m \in Managers, TriggerFails(m) PROVE Agreed'
  BY <1>15 DEF Typed, Forward, Agreed, Runs, Times, TriggerFails, CronFault
<1>16. ASSUME NEW m \in Managers, Forget(m) PROVE Agreed'
  BY <1>16, ZenonT(30) DEF Typed, Forward, Agreed, Runs, Times, Forget
<1>17. ASSUME NEW m \in Managers, DeleteStale(m) PROVE Agreed'
  BY <1>17 DEF Typed, Forward, Agreed, Runs, Times, DeleteStale, TickEnds
<1>18. ASSUME NEW m \in Managers, LoadFails(m) PROVE Agreed'
  BY <1>18, ZenonT(30) DEF Typed, Forward, Agreed, Runs, Times, LoadFails, Exposed, CronFault
<1>19. ASSUME NEW m \in Managers, DeleteFails(m) PROVE Agreed'
  BY <1>19 DEF Typed, Forward, Agreed, Runs, Times, DeleteFails, TickEnds, CronFault
<1>20. ASSUME NEW m \in Managers, ManagerDies(m) PROVE Agreed'
  BY <1>20 DEF Typed, Forward, Agreed, Runs, Times, ManagerDies, TickEnds, CronFault
<1> QED
  BY <1>1, <1>2, <1>3, <1>4, <1>5, <1>6, <1>7, <1>8, <1>9, <1>10, <1>11, <1>12, <1>13, <1>14,
     <1>15, <1>16, <1>17, <1>18, <1>19, <1>20, Zenon DEF CronNext, LoopStep, Faults

\* CronInv holds in every reachable state.
THEOREM CronInvariant == CronSpec => []CronInv
<1>1. ASSUME CronInit PROVE CronInv
  <2> USE <1>1, AnyFlowFact DEF CronInit
  <2>1. flow \in [Flows -> [enabled : BOOLEAN, period : Periods]]
    BY Zenon
  <2>2. now \in Times /\ tickNow \in [Managers -> Times]
    BY CronAssumption DEF Times
  <2>3. Typed
    BY <2>1, <2>2 DEF Typed, MgrPC, Never
  <2>4. Forward
    BY DEF Forward, InLoop, Never
  <2>5. Agreed
    BY Zenon DEF Agreed, Runs, InLoop, Never
  <2> QED
    BY <2>3, <2>4, <2>5, Zenon DEF CronInv
<1>2. ASSUME CronInv, [CronNext]_cronVars PROVE CronInv'
  <2>1. Typed' /\ Forward'
    BY <1>2, TypedKept, ForwardKept, Zenon DEF CronInv
  <2>2. ASSUME clean' PROVE Agreed'
    BY <1>2, <2>2, AgreedKept, Zenon DEF CronInv
  <2> QED
    BY <2>1, <2>2, Zenon DEF CronInv
<1> QED
  BY <1>1, <1>2, PTL DEF CronSpec

\* An occurrence starts one run at most, for any number of managers that take the
\* leader key in turn, as long as the history is clean.
THEOREM CronOnce == CronSpec => []OncePerOccurrence
<1>1. CronInv => OncePerOccurrence
  BY DEF CronInv, Typed, Forward, Agreed, Runs, InLoop, OncePerOccurrence, AboutToTrigger, Times
<1> QED
  BY <1>1, CronInvariant, PTL

\* An outage of any length is made up by one run.
THEOREM CronNoBurst == CronSpec => []NoBurst
<1>1. CronInv => NoBurst
  BY DEF CronInv, Typed, Forward, Agreed, Runs, InLoop, NoBurst, AboutToTrigger, Times
<1> QED
  BY <1>1, CronInvariant, PTL

\* The table names no occurrence that was run.
THEOREM CronCursorUnfired == CronSpec => []CursorUnfired
<1>1. CronInv => CursorUnfired
  BY DEF CronInv, Typed, Forward, Agreed, CursorUnfired
<1> QED
  BY <1>1, CronInvariant, PTL
=============================================================================
