------------------------------ MODULE ChatTurns ------------------------------
(***************************************************************************)
(* The turns of one chat session and the requests to stop them, on several *)
(* replicas of the manager (service/aiops).  A replica keeps the cancel    *)
(* function of the session's turn in its map cancels; pkg/wsfanout keeps,  *)
(* in Redis, which replica owns the session, with a short lock for its     *)
(* registration, and carries a stop to the owner over Pub/Sub.  Each Redis *)
(* command or pipeline is one action; turns, stops and the control loops   *)
(* interleave between them.                                                *)
(*                                                                         *)
(* A command fails when the turn's context is done, or by a fault; what it *)
(* was to write may be written all the same.  The lifetimes of the two     *)
(* keys are left to chance: the lock's (5s) may end at any time, the       *)
(* session's (30min) only when no replica renews it.  Nothing ends         *)
(* fanoutHeartbeat before its process does.                                *)
(***************************************************************************)
EXTENDS Integers

CONSTANTS
    Pods,           \* replicas of the manager
    Turns,          \* turns of the session
    Stops,          \* calls of StopSession
    NoPod,          \* a Redis key that is not set
    NoTurn,         \* a session that is not in cancels
    MaxChatFaults   \* bound on failed commands, lost messages and crashes

ASSUME ChatAssumption ==
    /\ Pods # {}
    /\ NoPod \notin Pods
    /\ NoTurn \notin Turns
    /\ MaxChatFaults \in Nat

VARIABLES
    turn,           \* where each call of runWithKernel is
    cancels,        \* the map cancels of each replica, at the session
    owner,          \* pod_id of the key wsfanout:session
    sessionLock,    \* value of the key wsfanout:lock
    beating,        \* replicas that run fanoutHeartbeat
    stop,           \* where each call of StopSession is
    mail,           \* stop messages under way to a replica
    asked,          \* history: turns a stop was confirmed for
    overlap,        \* history: a turn began before another had ended
    chatFaults

chatVars == <<turn, cancels, owner, sessionLock, beating, stop, mail, asked, overlap, chatFaults>>

Underway == {"lock", "holder", "write", "unlock", "run", "unregister", "uncancel"}

Turn == [pc : Underway \cup {"new", "done"}, pod : Pods, cancelled : BOOLEAN]

Stop == [pc : {"new", "send", "local", "done"}, pod : Pods, to : Pods \cup {NoPod},
         aim : SUBSET Turns]

InFlight == {t \in Turns : turn[t].pc \in Underway}

\* A call that has not begun, or is over.
RestingTurn(pc) == [pc |-> pc, pod |-> CHOOSE p \in Pods : TRUE, cancelled |-> FALSE]

RestingStop(pc) == [pc |-> pc, pod |-> CHOOSE p \in Pods : TRUE, to |-> NoPod, aim |-> {}]

ChatInit ==
    /\ turn = [t \in Turns |-> RestingTurn("new")]
    /\ cancels = [p \in Pods |-> NoTurn]
    /\ owner = NoPod
    /\ sessionLock = NoPod
    /\ beating = {}
    /\ stop = [s \in Stops |-> RestingStop("new")]
    /\ mail = {}
    /\ asked = {}
    /\ overlap = FALSE
    /\ chatFaults = 0

ChatFault == chatFaults < MaxChatFaults /\ chatFaults' = chatFaults + 1

\* A Redis call made with the turn's context fails.
TurnCallFails(t) == (turn[t].cancelled /\ UNCHANGED chatFaults) \/ ChatFault

Move(t, pc) == turn' = [turn EXCEPT ![t].pc = pc]

-----------------------------------------------------------------------------
(* A turn: runWithKernel and Registry.Register *)

\* registerCancel: a turn that still is in the map is cancelled and replaced.
BeginTurn(t, p) ==
    /\ turn[t].pc = "new"
    /\ turn' = [u \in Turns |->
                  IF u = t THEN [pc |-> "lock", pod |-> p, cancelled |-> FALSE]
                  ELSE IF u = cancels[p] THEN [turn[u] EXCEPT !.cancelled = TRUE] ELSE turn[u]]
    /\ cancels' = [cancels EXCEPT ![p] = t]
    /\ overlap' = (overlap \/ InFlight # {})
    /\ UNCHANGED <<owner, sessionLock, beating, stop, mail, asked, chatFaults>>

LockValue(t) == turn[t].pod

\* SET NX on the lock.
SetLock(t) ==
    /\ turn[t].pc = "lock"
    /\ IF sessionLock = NoPod THEN sessionLock' = LockValue(t) /\ Move(t, "write")
                       ELSE UNCHANGED sessionLock /\ Move(t, "holder")
    /\ UNCHANGED <<cancels, owner, beating, stop, mail, asked, overlap, chatFaults>>

\* It failed, and the turn goes on unregistered.
SetLockFails(t) ==
    /\ turn[t].pc = "lock"
    /\ TurnCallFails(t)
    /\ sessionLock' \in {sessionLock, IF sessionLock = NoPod THEN LockValue(t) ELSE sessionLock}
    /\ Move(t, "run")
    /\ UNCHANGED <<cancels, owner, beating, stop, mail, asked, overlap>>

\* The lock was held: by the replica itself, or the session counts as another's
\* (as it does when the lock cannot be read, or is gone by now).
ReadHolder(t) ==
    /\ turn[t].pc = "holder"
    /\ \/ sessionLock = turn[t].pod /\ Move(t, "write") /\ UNCHANGED chatFaults
       \/ sessionLock # turn[t].pod /\ Move(t, "run") /\ UNCHANGED chatFaults
       \/ TurnCallFails(t) /\ Move(t, "run")
    /\ UNCHANGED <<cancels, owner, sessionLock, beating, stop, mail, asked, overlap>>

\* The session's hash and its lifetime are written; the heartbeat starts.
WriteSession(t) ==
    /\ turn[t].pc = "write"
    /\ owner' = turn[t].pod
    /\ beating' = beating \cup {turn[t].pod}
    /\ Move(t, "run")
    /\ UNCHANGED <<cancels, sessionLock, stop, mail, asked, overlap, chatFaults>>

WriteSessionFails(t) ==
    /\ turn[t].pc = "write"
    /\ TurnCallFails(t)
    /\ owner' \in {owner, turn[t].pod}
    /\ Move(t, "unlock")
    /\ UNCHANGED <<cancels, sessionLock, beating, stop, mail, asked, overlap>>

\* Then the lock is deleted, whoever holds it, and the turn goes on.
DropLock(t) ==
    /\ turn[t].pc = "unlock"
    /\ \/ sessionLock' = NoPod /\ UNCHANGED chatFaults
       \/ UNCHANGED sessionLock /\ TurnCallFails(t)
    /\ Move(t, "run")
    /\ UNCHANGED <<cancels, owner, beating, stop, mail, asked, overlap>>

\* The kernel returns: with a reply, with an error, or because of the cancel.
EndTurn(t) ==
    /\ turn[t].pc = "run"
    /\ Move(t, "unregister")
    /\ UNCHANGED <<cancels, owner, sessionLock, beating, stop, mail, asked, overlap, chatFaults>>

\* Variant: Unregister leaves the lock to its lifetime.
Unregistered_KeepLock(t) == owner' = NoPod /\ UNCHANGED sessionLock

\* Registry.Unregister: both keys are deleted, whoever they name.
Unregistered(t) == owner' = NoPod /\ sessionLock' = NoPod

\* fanoutUnregister, with a context of its own.
Unregister(t) ==
    /\ turn[t].pc = "unregister"
    /\ \/ Unregistered(t) /\ UNCHANGED chatFaults
       \/ owner' \in {owner, NoPod} /\ sessionLock' \in {sessionLock, NoPod} /\ ChatFault
    /\ Move(t, "uncancel")
    /\ UNCHANGED <<cancels, beating, stop, mail, asked, overlap>>

\* The code pointers of two functions that context.WithCancel made: the same
\* closure, and so the same pointer, whatever the turns.
sameCancel(t, u) == TRUE

\* unregisterCancel.
UnregisterCancel(t) ==
    LET p == turn[t].pod IN
    /\ turn[t].pc = "uncancel"
    /\ cancels' = [cancels EXCEPT ![p] = IF @ # NoTurn /\ sameCancel(@, t) THEN NoTurn ELSE @]
    /\ turn' = [turn EXCEPT ![t] = RestingTurn("done")]
    /\ UNCHANGED <<owner, sessionLock, beating, stop, mail, asked, overlap, chatFaults>>

-----------------------------------------------------------------------------
(* StopSession and HandleRemoteStop *)

\* Variant: the entry is dropped and its function is not called.
CancelEntry_DropOnly(p) ==
    /\ cancels' = [cancels EXCEPT ![p] = NoTurn]
    /\ UNCHANGED turn

\* What both do at a replica: the entry is dropped and its function called.
CancelEntry(p) ==
    /\ cancels' = [cancels EXCEPT ![p] = NoTurn]
    /\ turn' = [u \in Turns |-> IF u = cancels[p] THEN [turn[u] EXCEPT !.cancelled = TRUE]
                                ELSE turn[u]]

\* Lookup.  A session without an owner is answered with stopped = false.
StopLookup(s, p) ==
    /\ stop[s].pc = "new"
    /\ stop' = [stop EXCEPT ![s] =
                  IF owner = NoPod THEN RestingStop("done")
                  ELSE [pc |-> IF owner = p THEN "local" ELSE "send", pod |-> p, to |-> owner,
                        aim |-> InFlight]]
    /\ UNCHANGED <<turn, cancels, owner, sessionLock, beating, mail, asked, overlap, chatFaults>>

\* It failed: stopped = false as well.
StopLookupFails(s) ==
    /\ stop[s].pc = "new"
    /\ ChatFault
    /\ stop' = [stop EXCEPT ![s] = RestingStop("done")]
    /\ UNCHANGED <<turn, cancels, owner, sessionLock, beating, mail, asked, overlap>>

\* Control.Send to the owner; the stop is confirmed whether it succeeds or not.
StopSend(s) ==
    /\ stop[s].pc = "send"
    /\ \/ mail' = mail \cup {[id |-> s, to |-> stop[s].to]} /\ UNCHANGED chatFaults
       \/ UNCHANGED mail /\ ChatFault
    /\ stop' = [stop EXCEPT ![s] = RestingStop("done")]
    /\ asked' = asked \cup stop[s].aim
    /\ UNCHANGED <<turn, cancels, owner, sessionLock, beating, overlap>>

\* The owner is this replica; the stop is confirmed if there is an entry.
StopLocal(s) ==
    LET p == stop[s].pod IN
    /\ stop[s].pc = "local"
    /\ CancelEntry(p)
    /\ stop' = [stop EXCEPT ![s] = RestingStop("done")]
    /\ asked' = IF cancels[p] # NoTurn THEN asked \cup stop[s].aim ELSE asked
    /\ UNCHANGED <<owner, sessionLock, beating, mail, overlap, chatFaults>>

\* The control loop of a replica hands a message to HandleRemoteStop.
HandleRemoteStop(m) ==
    /\ CancelEntry(m.to)
    /\ mail' = mail \ {m}
    /\ UNCHANGED <<owner, sessionLock, beating, stop, asked, overlap, chatFaults>>

-----------------------------------------------------------------------------
(* Redis and the replicas *)

\* The replica is not subscribed: Pub/Sub keeps nothing for it.
LoseMail(m) ==
    /\ ChatFault
    /\ mail' = mail \ {m}
    /\ UNCHANGED <<turn, cancels, owner, sessionLock, beating, stop, asked, overlap>>

LockExpires ==
    /\ sessionLock # NoPod
    /\ sessionLock' = NoPod
    /\ UNCHANGED <<turn, cancels, owner, beating, stop, mail, asked, overlap, chatFaults>>

\* No heartbeat reached the key for its whole lifetime.
SessionExpires ==
    /\ owner # NoPod
    /\ (beating = {} /\ UNCHANGED chatFaults) \/ ChatFault
    /\ owner' = NoPod
    /\ UNCHANGED <<turn, cancels, sessionLock, beating, stop, mail, asked, overlap>>

\* A replica's process dies and is started again, under the same name.
PodCrash(p) ==
    /\ ChatFault
    /\ turn' = [t \in Turns |-> IF t \in InFlight /\ turn[t].pod = p
                                THEN RestingTurn("done") ELSE turn[t]]
    /\ cancels' = [cancels EXCEPT ![p] = NoTurn]
    /\ beating' = beating \ {p}
    /\ stop' = [s \in Stops |-> IF stop[s].pc \in {"send", "local"} /\ stop[s].pod = p
                                THEN RestingStop("done") ELSE stop[s]]
    /\ mail' = {m \in mail : m.to # p}
    /\ UNCHANGED <<owner, sessionLock, asked, overlap>>

-----------------------------------------------------------------------------

TurnStep(t) ==
    \/ SetLock(t) \/ SetLockFails(t) \/ ReadHolder(t) \/ WriteSession(t)
    \/ WriteSessionFails(t) \/ DropLock(t) \/ Unregister(t) \/ UnregisterCancel(t)

\* What the replicas do by themselves.  A turn may run for ever; a cancelled one
\* does not, its context is done.
ChatProceeds ==
    \/ \E t \in Turns : TurnStep(t) \/ (turn[t].cancelled /\ EndTurn(t))
    \/ \E s \in Stops : StopSend(s) \/ StopLocal(s)
    \/ \E m \in mail : HandleRemoteStop(m)

ChatNext ==
    \/ ChatProceeds
    \/ \E t \in Turns, p \in Pods : BeginTurn(t, p)
    \/ \E t \in Turns : EndTurn(t)
    \/ \E s \in Stops, p \in Pods : StopLookup(s, p)
    \/ \E s \in Stops : StopLookupFails(s)
    \/ \E m \in mail : LoseMail(m)
    \/ LockExpires \/ SessionExpires
    \/ \E p \in Pods : PodCrash(p)

ChatSpec == ChatInit /\ [][ChatNext]_chatVars

ChatFairSpec == ChatSpec /\ WF_chatVars(ChatProceeds)

-----------------------------------------------------------------------------
(* Properties *)

\* When a session's turns are taken one after the other, on whichever replicas,
\* and nothing fails, a turn that runs can be stopped from every replica: the
\* registry names its replica and that replica's map holds its cancel function.
SerialTurnStoppable ==
    (~overlap /\ chatFaults = 0) =>
        \A t \in Turns : (turn[t].pc = "run" /\ ~turn[t].cancelled) =>
            owner = turn[t].pod /\ cancels[turn[t].pod] = t

\* Under the same conditions, a turn that ran when a stop looked its session up
\* ends, if the stop was answered with stopped = true.
ConfirmedStopEnds ==
    \A t \in Turns : []<>(t \notin asked \/ turn[t].pc = "done" \/ overlap \/ chatFaults > 0)

\* "A newer turn ... may have replaced/cleared the entry; comparing by pointer
\* avoids clobbering it": a turn that was neither stopped nor replaced is in the
\* map of its replica until it removes itself.
NewerTurnKept ==
    \A t \in InFlight : turn[t].cancelled \/ cancels[turn[t].pod] = t
=============================================================================
