----------------------------- MODULE ChatProofs -----------------------------
(***************************************************************************)
(* Proofs about ChatTurns, for any replicas, turns and stops.              *)
(***************************************************************************)
EXTENDS ChatTurns, TLAPS

\* The types the argument needs.
ChatTyped ==
    /\ turn \in [Turns -> Turn]
    /\ stop \in [Stops -> Stop]
    /\ cancels \in [Pods -> Turns \cup {NoTurn}]
    /\ owner \in Pods \cup {NoPod}
    /\ asked \subseteq Turns
    /\ overlap \in BOOLEAN
    /\ chatFaults \in Nat

\* The turns were taken one after the other, and nothing has failed.
Quiet == ~overlap /\ chatFaults = 0

\* A stop aims at turns that have begun, and acts at once where it is the owner.
StopsAim ==
    /\ \A t \in Turns : turn[t].pc = "new" => /\ t \notin asked
                                              /\ \A s \in Stops : t \notin stop[s].aim
    /\ \A s \in Stops : stop[s].pc = "local" => stop[s].to = stop[s].pod

\* What the registry, the map and the stops hold of a turn that is under way.
\* The registry may hold the turn's replica before it runs and after it was
\* cancelled, and no other one.
Registered(t) ==
    /\ turn[t].pc # "holder"
    /\ turn[t].pc \in {"lock", "uncancel"} => sessionLock = NoPod /\ owner = NoPod
    /\ owner \in {NoPod, turn[t].pod}
    /\ ~turn[t].cancelled =>
         /\ cancels[turn[t].pod] = t
         /\ turn[t].pc # "unlock"
         /\ turn[t].pc = "run" => owner = turn[t].pod /\ owner \in beating

\* The stops that were confirmed, or that may yet be, for a turn under way: the
\* turn is cancelled, or a message is on its way to its replica.
StopReaches(t) ==
    /\ t \in asked /\ ~turn[t].cancelled => \E m \in mail : m.to = turn[t].pod
    /\ \A s \in Stops : t \in stop[s].aim => stop[s].to = turn[t].pod

SerialTurns ==
    /\ \A t, u \in InFlight : t = u
    /\ InFlight = {} => sessionLock = NoPod /\ owner = NoPod
    /\ \A t \in InFlight : Registered(t) /\ StopReaches(t)

ChatInv == ChatTyped /\ StopsAim /\ (Quiet => SerialTurns)
-----------------------------------------------------------------------------

\* A call that rests is a call.
LEMMA RestingTyped ==
    \A p \in {"new", "done"} : RestingTurn(p) \in Turn /\ RestingStop(p) \in Stop
BY ChatAssumption, Zenon DEF RestingTurn, RestingStop, Turn, Stop

\* What a step of a turn makes of it.
LEMMA TurnFields ==
    ASSUME NEW x \in Turn
    PROVE  /\ x.pod \in Pods /\ x.cancelled \in BOOLEAN /\ x.pc \in Underway \cup {"new", "done"}
           /\ \A c \in Underway : [x EXCEPT !.pc = c] \in Turn
           /\ [x EXCEPT !.cancelled = TRUE] \in Turn
           /\ [x EXCEPT !.cancelled = TRUE].pc = x.pc /\ [x EXCEPT !.cancelled = TRUE].pod = x.pod
           /\ [x EXCEPT !.cancelled = TRUE].cancelled
BY Zenon DEF Turn

\* A step that moves a turn on changes nothing else of it, and no other turn.
LEMMA Moves ==
    ASSUME ChatTyped, NEW t \in Turns, NEW c \in Underway, Move(t, c)
    PROVE  /\ turn' \in [Turns -> Turn]
           /\ \A u \in Turns : /\ turn'[u].pod = turn[u].pod
                               /\ turn'[u].cancelled = turn[u].cancelled
                               /\ u # t => turn'[u].pc = turn[u].pc
           /\ turn'[t].pc = c
<1>1. turn[t] \in Turn /\ turn' = [turn EXCEPT ![t] = [turn[t] EXCEPT !.pc = c]]
  BY Zenon DEF ChatTyped, Move
<1>2. [turn[t] EXCEPT !.pc = c] \in Turn
  BY <1>1, TurnFields, Zenon
<1>3. /\ [turn[t] EXCEPT !.pc = c].pc = c /\ [turn[t] EXCEPT !.pc = c].pod = turn[t].pod
      /\ [turn[t] EXCEPT !.pc = c].cancelled = turn[t].cancelled
  BY <1>1, Zenon DEF Turn
<1> DEFINE w == [turn[t] EXCEPT !.pc = c]
<1> HIDE DEF w
<1>4. /\ turn' = [turn EXCEPT ![t] = w] /\ w \in Turn /\ w.pc = c /\ w.pod = turn[t].pod
      /\ w.cancelled = turn[t].cancelled
  BY <1>1, <1>2, <1>3, Zenon DEF w
<1> QED
  BY <1>4, Zenon DEF ChatTyped

\* What a stop leaves behind at a replica.
LEMMA Cancels ==
    ASSUME ChatTyped, NEW p, CancelEntry(p)
    PROVE  /\ turn' \in [Turns -> Turn]
           /\ cancels' \in [Pods -> Turns \cup {NoTurn}]
           /\ \A q \in Pods : q # p => cancels'[q] = cancels[q]
           /\ \A u \in Turns : /\ turn'[u].pod = turn[u].pod
                               /\ turn'[u].pc = turn[u].pc
                               /\ turn'[u].cancelled = (turn[u].cancelled \/ u = cancels[p])
<1>1. /\ cancels' = [cancels EXCEPT ![p] = NoTurn]
      /\ cancels \in [Pods -> Turns \cup {NoTurn}]
  BY Zenon DEF CancelEntry, ChatTyped
<1>2. \A u \in Turns :
        turn'[u] = IF u = cancels[p] THEN [turn[u] EXCEPT !.cancelled = TRUE] ELSE turn[u]
  BY Zenon DEF CancelEntry
<1>3. \A u \in Turns : turn[u] \in Turn
  BY Zenon DEF ChatTyped
<1>4. ASSUME NEW u \in Turns
      PROVE  /\ turn'[u] \in Turn /\ turn'[u].pod = turn[u].pod /\ turn'[u].pc = turn[u].pc
             /\ turn'[u].cancelled = (turn[u].cancelled \/ u = cancels[p])
  <2> DEFINE w == [turn[u] EXCEPT !.cancelled = TRUE]
  <2>1. w \in Turn /\ w.pod = turn[u].pod /\ w.pc = turn[u].pc /\ w.cancelled = TRUE
    BY <1>3, TurnFields, Zenon DEF Turn
  <2>2. turn'[u] = IF u = cancels[p] THEN w ELSE turn[u]
    BY <1>2, Zenon
  <2>3. turn[u] \in Turn /\ turn[u].cancelled \in BOOLEAN
    BY <1>3, TurnFields, Zenon
  <2> HIDE DEF w
  <2> QED
    BY <2>1, <2>2, <2>3, Zenon
<1>6. turn' \in [Turns -> Turn]
  BY <1>4, Zenon DEF CancelEntry
<1>7. /\ cancels' \in [Pods -> Turns \cup {NoTurn}]
      /\ \A q \in Pods : q # p => cancels'[q] = cancels[q]
  BY <1>1, Zenon
<1> QED
  BY <1>4, <1>6, <1>7, Zenon

\* What a turn that begins leaves behind.
LEMMA Begins ==
    ASSUME ChatTyped, NEW t \in Turns, NEW p \in Pods, BeginTurn(t, p)
    PROVE  /\ turn' \in [Turns -> Turn]
           /\ turn'[t].pc = "lock" /\ turn'[t].pod = p /\ ~turn'[t].cancelled
           /\ \A u \in Turns \ {t} : turn'[u].pc = turn[u].pc
<1>1. [pc |-> "lock", pod |-> p, cancelled |-> FALSE] \in Turn
  BY Zenon DEF Turn, Underway
<1>2. \A u \in Turns : turn[u] \in Turn
  BY Zenon DEF ChatTyped
<1>3. ASSUME NEW u \in Turns \ {t} PROVE turn'[u] \in Turn /\ turn'[u].pc = turn[u].pc
  <2> DEFINE w == [turn[u] EXCEPT !.cancelled = TRUE]
  <2>1. w \in Turn /\ w.pc = turn[u].pc
    BY <1>2, TurnFields, Zenon
  <2>2. turn'[u] = IF u = cancels[p] THEN w ELSE turn[u]
    BY Zenon DEF BeginTurn
  <2> HIDE DEF w
  <2> QED
    BY <1>2, <2>1, <2>2, Zenon
<1>4. turn'[t] = [pc |-> "lock", pod |-> p, cancelled |-> FALSE]
  BY Zenon DEF BeginTurn
<1>5. turn' \in [Turns -> Turn]
  BY <1>1, <1>3, <1>4, Zenon DEF BeginTurn
<1> QED
  BY <1>3, <1>4, <1>5

\* What a lookup leaves behind.
LEMMA Lookups ==
    ASSUME ChatTyped, NEW s \in Stops, NEW p \in Pods, StopLookup(s, p)
    PROVE  /\ stop' \in [Stops -> Stop]
           /\ \A z \in Stops \ {s} : stop'[z] = stop[z]
           /\ stop'[s].aim \subseteq InFlight
           /\ stop'[s].aim # {} => stop'[s].to = owner /\ owner # NoPod
           /\ stop'[s].pc = "local" => stop'[s].to = stop'[s].pod
<1> DEFINE w == IF owner = NoPod THEN RestingStop("done")
                ELSE [pc |-> IF owner = p THEN "local" ELSE "send", pod |-> p, to |-> owner,
                      aim |-> InFlight]
<1>1. InFlight \subseteq Turns /\ owner \in Pods \cup {NoPod}
  BY Zenon DEF InFlight, ChatTyped
<1>2. w \in Stop
  BY <1>1, RestingTyped, Zenon DEF Stop
<1>3. /\ w.aim \subseteq InFlight
      /\ w.aim # {} => w.to = owner /\ owner # NoPod
      /\ w.pc = "local" => w.to = w.pod
  BY Zenon DEF RestingStop
<1>4. stop' = [stop EXCEPT ![s] = w]
  BY Zenon DEF StopLookup
<1> HIDE DEF w
<1> QED
  BY <1>2, <1>3, <1>4, Zenon DEF ChatTyped

\* A call of StopSession that is over aims at nothing.
LEMMA StopOver ==
    ASSUME ChatTyped, NEW s \in Stops, stop' = [stop EXCEPT ![s] = RestingStop("done")]
    PROVE  /\ stop' \in [Stops -> Stop]
           /\ \A z \in Stops \ {s} : stop'[z] = stop[z]
           /\ stop'[s].aim = {} /\ stop'[s].pc = "done"
<1> DEFINE w == RestingStop("done")
<1>1. w \in Stop /\ w.aim = {} /\ w.pc = "done"
  BY RestingTyped, Zenon DEF RestingStop
<1> HIDE DEF w
<1>2. stop' = [stop EXCEPT ![s] = w]
  BY Zenon DEF w
<1> QED
  BY <1>1, <1>2, Zenon DEF ChatTyped

\* Every step keeps the types.
LEMMA ChatTypedKept ==
    ASSUME ChatTyped, [ChatNext]_chatVars PROVE ChatTyped'
<1> USE ChatAssumption, RestingTyped
<1>1. CASE UNCHANGED chatVars
  BY <1>1, Zenon DEF ChatTyped, chatVars
<1>2. ASSUME NEW t \in Turns, NEW p \in Pods, BeginTurn(t, p) PROVE ChatTyped'
  BY <1>2, Begins, Zenon DEF ChatTyped, BeginTurn
<1>3. ASSUME NEW t \in Turns, SetLock(t) PROVE ChatTyped'
  BY <1>3, Moves, Zenon DEF SetLock, LockValue, ChatTyped, Underway, Turn
<1>4. ASSUME NEW t \in Turns, SetLockFails(t) PROVE ChatTyped'
  BY <1>4, Moves DEF SetLockFails, LockValue, TurnCallFails, ChatFault, ChatTyped, Underway, Turn
<1>5. ASSUME NEW t \in Turns, ReadHolder(t) PROVE ChatTyped'
  BY <1>5, Moves DEF ReadHolder, TurnCallFails, ChatFault, ChatTyped, Underway, Turn
<1>6. ASSUME NEW t \in Turns, WriteSession(t) PROVE ChatTyped'
  BY <1>6, Moves, Zenon DEF WriteSession, ChatTyped, Underway, Turn
<1>7. ASSUME NEW t \in Turns, WriteSessionFails(t) PROVE ChatTyped'
  BY <1>7, Moves DEF WriteSessionFails, TurnCallFails, ChatFault, ChatTyped, Underway, Turn
<1>8. ASSUME NEW t \in Turns, DropLock(t) PROVE ChatTyped'
  BY <1>8, Moves DEF DropLock, TurnCallFails, ChatFault, ChatTyped, Underway, Turn
<1>9. ASSUME NEW t \in Turns, EndTurn(t) PROVE ChatTyped'
  BY <1>9, Moves, Zenon DEF EndTurn, ChatTyped, Underway, Turn
<1>10. ASSUME NEW t \in Turns, Unregister(t) PROVE ChatTyped'
  BY <1>10, Moves DEF Unregister, Unregistered, ChatFault, ChatTyped, Underway, Turn
<1>11. ASSUME NEW t \in Turns, UnregisterCancel(t) PROVE ChatTyped'
  BY <1>11, Zenon DEF ChatTyped, UnregisterCancel, RestingTurn
<1>12. ASSUME NEW s \in Stops, NEW p \in Pods, StopLookup(s, p) PROVE ChatTyped'
  BY <1>12, Lookups, Zenon DEF ChatTyped, StopLookup
<1>13. ASSUME NEW s \in Stops, StopLookupFails(s) PROVE ChatTyped'
  BY <1>13 DEF ChatTyped, StopLookupFails, RestingStop, ChatFault
<1>14. ASSUME NEW s \in Stops, StopSend(s) PROVE ChatTyped'
  <2>1. stop[s].aim \subseteq Turns
    BY Zenon DEF ChatTyped, Stop
  <2> QED
    BY <1>14, <2>1, StopOver DEF ChatTyped, StopSend, ChatFault
<1>15. ASSUME NEW s \in Stops, StopLocal(s) PROVE ChatTyped'
  <2>1. stop[s].aim \subseteq Turns
    BY DEF ChatTyped, Stop
  <2> QED
    BY <1>15, <2>1, StopOver, Cancels, Zenon DEF ChatTyped, StopLocal
<1>16. ASSUME NEW m \in mail, HandleRemoteStop(m) PROVE ChatTyped'
  BY <1>16, Cancels, Zenon DEF ChatTyped, HandleRemoteStop
<1>17. ASSUME NEW m \in mail, LoseMail(m) PROVE ChatTyped'
  BY <1>17 DEF ChatTyped, LoseMail, ChatFault
<1>18. ASSUME LockExpires PROVE ChatTyped'
  BY <1>18, Zenon DEF ChatTyped, LockExpires
<1>19. ASSUME SessionExpires PROVE ChatTyped'
  BY <1>19 DEF ChatTyped, SessionExpires, ChatFault
<1>20. ASSUME NEW p \in Pods, PodCrash(p) PROVE ChatTyped'
  BY <1>20 DEF ChatTyped, PodCrash, ChatFault
<1> QED
  BY <1>1, <1>2, <1>3, <1>4, <1>5, <1>6, <1>7, <1>8, <1>9, <1>10, <1>11, <1>12, <1>13, <1>14, <1>15,
      <1>16, <1>17, <1>18, <1>19, <1>20, Zenon DEF ChatNext, ChatProceeds, TurnStep

\* A step that confirms no stop, aims at no turn and undoes the begin of none.
LEMMA StopsAimSame ==
    ASSUME StopsAim, UNCHANGED <<stop, asked>>,
           \A u \in Turns : turn'[u].pc = "new" => turn[u].pc = "new"
    PROVE  StopsAim'
BY Zenon DEF StopsAim

\* A stop keeps aiming at turns that have begun.
LEMMA StopsAimKept ==
    ASSUME ChatTyped, StopsAim, [ChatNext]_chatVars PROVE StopsAim'
<1> USE ChatAssumption
<1>1. CASE UNCHANGED chatVars
  BY <1>1, Zenon DEF ChatTyped, StopsAim, chatVars
<1>2. ASSUME NEW t \in Turns, NEW p \in Pods, BeginTurn(t, p) PROVE StopsAim'
  BY <1>2, Begins, StopsAimSame, Zenon DEF BeginTurn
<1>3. ASSUME NEW t \in Turns, SetLock(t) PROVE StopsAim'
  BY <1>3, Moves, StopsAimSame, Zenon DEF SetLock, LockValue, Underway
<1>4. ASSUME NEW t \in Turns, SetLockFails(t) PROVE StopsAim'
  BY <1>4, Moves, StopsAimSame, Zenon
     DEF SetLockFails, LockValue, TurnCallFails, ChatFault, Underway
<1>5. ASSUME NEW t \in Turns, ReadHolder(t) PROVE StopsAim'
  BY <1>5, Moves, StopsAimSame, Zenon DEF ReadHolder, TurnCallFails, ChatFault, Underway
<1>6. ASSUME NEW t \in Turns, WriteSession(t) PROVE StopsAim'
  BY <1>6, Moves, StopsAimSame, Zenon DEF WriteSession, Underway
<1>7. ASSUME NEW t \in Turns, WriteSessionFails(t) PROVE StopsAim'
  BY <1>7, Moves, StopsAimSame, Zenon DEF WriteSessionFails, TurnCallFails, ChatFault, Underway
<1>8. ASSUME NEW t \in Turns, DropLock(t) PROVE StopsAim'
  BY <1>8, Moves, StopsAimSame, Zenon DEF DropLock, TurnCallFails, ChatFault, Underway
<1>9. ASSUME NEW t \in Turns, EndTurn(t) PROVE StopsAim'
  BY <1>9, Moves, StopsAimSame, Zenon DEF EndTurn, Underway
<1>10. ASSUME NEW t \in Turns, Unregister(t) PROVE StopsAim'
  BY <1>10, Moves, StopsAimSame, Zenon DEF Unregister, Unregistered, ChatFault, Underway
<1>11. ASSUME NEW t \in Turns, UnregisterCancel(t) PROVE StopsAim'
  BY <1>11, Zenon DEF ChatTyped, StopsAim, UnregisterCancel, RestingTurn
<1>12. ASSUME NEW s \in Stops, NEW p \in Pods, StopLookup(s, p) PROVE StopsAim'
  BY <1>12, Lookups, Zenon DEF StopsAim, StopLookup, InFlight, Underway
<1>13. ASSUME NEW s \in Stops, StopLookupFails(s) PROVE StopsAim'
  BY <1>13, StopOver, Zenon DEF StopsAim, StopLookupFails
<1>14. ASSUME NEW s \in Stops, StopSend(s) PROVE StopsAim'
  BY <1>14, StopOver, Zenon DEF StopsAim, StopSend
<1>15. ASSUME NEW s \in Stops, StopLocal(s) PROVE StopsAim'
  <2>1. /\ \A u \in Turns : turn'[u].pc = turn[u].pc
        /\ stop'[s].aim = {} /\ stop'[s].pc = "done" /\ \A z \in Stops \ {s} : stop'[z] = stop[z]
    BY <1>15, StopOver, Cancels, ZenonT(30) DEF StopLocal
  <2>2. asked' \subseteq asked \cup stop[s].aim
    BY <1>15, Zenon DEF StopLocal
  <2> QED
    BY <2>1, <2>2 DEF StopsAim
<1>16. ASSUME NEW m \in mail, HandleRemoteStop(m) PROVE StopsAim'
  BY <1>16, Cancels, StopsAimSame, Zenon DEF HandleRemoteStop
<1>17. ASSUME NEW m \in mail, LoseMail(m) PROVE StopsAim'
  BY <1>17, Zenon DEF ChatTyped, StopsAim, LoseMail, ChatFault
<1>18. ASSUME LockExpires PROVE StopsAim'
  BY <1>18, Zenon DEF ChatTyped, StopsAim, LockExpires
<1>19. ASSUME SessionExpires PROVE StopsAim'
  BY <1>19, Zenon DEF ChatTyped, StopsAim, SessionExpires, ChatFault
<1>20. ASSUME NEW p \in Pods, PodCrash(p) PROVE StopsAim'
  <2>1. \A u \in Turns : turn'[u].pc = "new" => turn[u].pc = "new"
    BY <1>20, Zenon DEF PodCrash, RestingTurn
  <2>2. \A z \in Stops : /\ stop'[z].aim \subseteq stop[z].aim
                         /\ stop'[z].pc = "local" => stop'[z] = stop[z]
    BY <1>20, Zenon DEF PodCrash, RestingStop
  <2> QED
    BY <1>20, <2>1, <2>2 DEF StopsAim, PodCrash
<1> QED
  BY <1>1, <1>2, <1>3, <1>4, <1>5, <1>6, <1>7, <1>8, <1>9, <1>10, <1>11, <1>12, <1>13, <1>14, <1>15,
      <1>16, <1>17, <1>18, <1>19, <1>20, Zenon DEF ChatNext, ChatProceeds, TurnStep

\* Turns that overlapped, and a fault, are not undone.
LEMMA QuietBefore ==
    ASSUME ChatTyped, [ChatNext]_chatVars, Quiet' PROVE Quiet
<1> DEFINE Goes == chatFaults' \in {chatFaults, chatFaults + 1} /\ (overlap => overlap')
<1>1. Goes
  <2>1. CASE UNCHANGED chatVars
    BY <2>1, Zenon DEF chatVars
  <2>2. ASSUME NEW t \in Turns, NEW p \in Pods, BeginTurn(t, p) PROVE Goes
    BY <2>2, Zenon DEF BeginTurn
  <2>3. ASSUME NEW t \in Turns, SetLock(t) PROVE Goes
    BY <2>3, Zenon DEF SetLock
  <2>4. ASSUME NEW t \in Turns, SetLockFails(t) PROVE Goes
    BY <2>4, Zenon DEF SetLockFails, TurnCallFails, ChatFault
  <2>5. ASSUME NEW t \in Turns, ReadHolder(t) PROVE Goes
    BY <2>5, Zenon DEF ReadHolder, TurnCallFails, ChatFault
  <2>6. ASSUME NEW t \in Turns, WriteSession(t) PROVE Goes
    BY <2>6, Zenon DEF WriteSession
  <2>7. ASSUME NEW t \in Turns, WriteSessionFails(t) PROVE Goes
    BY <2>7, Zenon DEF WriteSessionFails, TurnCallFails, ChatFault
  <2>8. ASSUME NEW t \in Turns, DropLock(t) PROVE Goes
    BY <2>8, Zenon DEF DropLock, TurnCallFails, ChatFault
  <2>9. ASSUME NEW t \in Turns, EndTurn(t) PROVE Goes
    BY <2>9, Zenon DEF EndTurn
  <2>10. ASSUME NEW t \in Turns, Unregister(t) PROVE Goes
    BY <2>10, Zenon DEF Unregister, ChatFault
  <2>11. ASSUME NEW t \in Turns, UnregisterCancel(t) PROVE Goes
    BY <2>11, Zenon DEF UnregisterCancel
  <2>12. ASSUME NEW s \in Stops, NEW p \in Pods, StopLookup(s, p) PROVE Goes
    BY <2>12, Zenon DEF StopLookup
  <2>13. ASSUME NEW s \in Stops, StopLookupFails(s) PROVE Goes
    BY <2>13, Zenon DEF StopLookupFails, ChatFault
  <2>14. ASSUME NEW s \in Stops, StopSend(s) PROVE Goes
    BY <2>14, Zenon DEF StopSend, ChatFault
  <2>15. ASSUME NEW s \in Stops, StopLocal(s) PROVE Goes
    BY <2>15, Zenon DEF StopLocal
  <2>16. ASSUME NEW m \in mail, HandleRemoteStop(m) PROVE Goes
    BY <2>16, Zenon DEF HandleRemoteStop
  <2>17. ASSUME NEW m \in mail, LoseMail(m) PROVE Goes
    BY <2>17, Zenon DEF LoseMail, ChatFault
  <2>18. ASSUME LockExpires PROVE Goes
    BY <2>18, Zenon DEF LockExpires
  <2>19. ASSUME SessionExpires PROVE Goes
    BY <2>19, Zenon DEF SessionExpires, ChatFault
  <2>20. ASSUME NEW p \in Pods, PodCrash(p) PROVE Goes
    BY <2>20, Zenon DEF PodCrash, ChatFault
  <2> QED
    BY <2>1, <2>2, <2>3, <2>4, <2>5, <2>6, <2>7, <2>8, <2>9, <2>10, <2>11, <2>12, <2>13, <2>14,
        <2>15, <2>16, <2>17, <2>18, <2>19, <2>20, Zenon DEF ChatNext, ChatProceeds, TurnStep
<1> QED
  BY <1>1 DEF Quiet, ChatTyped

\* One turn at most is under way, and it is t.
LEMMA SerialFrom ==
    ASSUME NEW t, InFlight' \subseteq {t},
           t \in InFlight' => Registered(t)' /\ StopReaches(t)',
           InFlight' = {} => sessionLock' = NoPod /\ owner' = NoPod
    PROVE  SerialTurns'
BY Zenon DEF SerialTurns

\* While the turns are serial and nothing fails, the registry and the map follow
\* them.
LEMMA SerialTurnsKept ==
    ASSUME ChatTyped, StopsAim, Quiet, SerialTurns, Quiet', [ChatNext]_chatVars PROVE SerialTurns'
<1> USE ChatAssumption
<1>1. CASE UNCHANGED chatVars
  BY <1>1 DEF SerialTurns, Registered, StopReaches, InFlight, chatVars
<1>2. ASSUME NEW t \in Turns, NEW p \in Pods, BeginTurn(t, p) PROVE SerialTurns'
  <2>1. InFlight = {} /\ t \in Turns
    BY <1>2, Zenon DEF Quiet, BeginTurn
  <2>2. InFlight' \subseteq {t}
    BY <1>2, <2>1, Begins, Zenon DEF InFlight
  <2>3. sessionLock' = NoPod /\ owner' = NoPod
    BY <1>2, <2>1, Zenon DEF SerialTurns, BeginTurn
  <2>4. cancels'[p] = t
    BY <1>2, Zenon DEF ChatTyped, BeginTurn
  <2>5. Registered(t)'
    BY <1>2, <2>3, <2>4, Begins, Zenon DEF Registered
  <2>6. StopReaches(t)'
    BY <1>2, Zenon DEF StopReaches, StopsAim, BeginTurn
  <2> QED
    BY <2>2, <2>3, <2>5, <2>6, SerialFrom, Zenon
<1>3. ASSUME NEW t \in Turns, SetLock(t) PROVE SerialTurns'
  <2>1. t \in InFlight /\ InFlight = {t} /\ Registered(t) /\ StopReaches(t)
    BY <1>3, Zenon DEF SerialTurns, InFlight, Underway, SetLock
  <2>2. InFlight' = {t}
    BY <1>3, <2>1, Moves DEF InFlight, Underway, SetLock, LockValue
  <2>3. Registered(t)'
    BY <1>3, <2>1, Moves, Zenon DEF ChatTyped, Registered, Quiet, Underway, SetLock, LockValue
  <2>4. StopReaches(t)'
    BY <1>3, <2>1, Moves, Zenon DEF StopReaches, Underway, SetLock, LockValue
  <2> QED
    BY <2>2, <2>3, <2>4, SerialFrom, Zenon
<1>4. ASSUME NEW t \in Turns, SetLockFails(t) PROVE SerialTurns'
  <2>1. t \in InFlight /\ InFlight = {t} /\ Registered(t) /\ StopReaches(t)
    BY <1>4, Zenon DEF SerialTurns, InFlight, Underway, SetLockFails
  <2>2. InFlight' = {t}
    BY <1>4, <2>1, Moves, Zenon
       DEF InFlight, Underway, SetLockFails, LockValue, TurnCallFails, ChatFault
  <2>3. Registered(t)'
    BY <1>4, <2>1, Moves DEF ChatTyped, Registered, Quiet, Underway, SetLockFails, LockValue,
        TurnCallFails, ChatFault
  <2>4. StopReaches(t)'
    BY <1>4, <2>1, Moves, Zenon DEF StopReaches, Underway, SetLockFails, LockValue, TurnCallFails,
        ChatFault
  <2> QED
    BY <2>2, <2>3, <2>4, SerialFrom
<1>5. ASSUME NEW t \in Turns, ReadHolder(t) PROVE SerialTurns'
  BY <1>5, Zenon DEF SerialTurns, Registered, InFlight, Underway, ReadHolder
<1>6. ASSUME NEW t \in Turns, WriteSession(t) PROVE SerialTurns'
  <2>1. t \in InFlight /\ InFlight = {t} /\ Registered(t) /\ StopReaches(t)
    BY <1>6, Zenon DEF SerialTurns, InFlight, Underway, WriteSession
  <2>2. InFlight' = {t}
    BY <1>6, <2>1, Moves, Zenon DEF InFlight, Underway, WriteSession
  <2>3. Registered(t)'
    BY <1>6, <2>1, Moves, Zenon DEF ChatTyped, Registered, Quiet, Underway, WriteSession
  <2>4. StopReaches(t)'
    BY <1>6, <2>1, Moves, Zenon DEF StopReaches, Underway, WriteSession
  <2> QED
    BY <2>2, <2>3, <2>4, SerialFrom
<1>7. ASSUME NEW t \in Turns, WriteSessionFails(t) PROVE SerialTurns'
  <2>1. t \in InFlight /\ InFlight = {t} /\ Registered(t) /\ StopReaches(t)
    BY <1>7, Zenon DEF SerialTurns, InFlight, Underway, WriteSessionFails
  <2>2. InFlight' = {t}
    BY <1>7, <2>1, Moves, Zenon DEF InFlight, Underway, WriteSessionFails, TurnCallFails, ChatFault
  <2>3. Registered(t)'
    BY <1>7, <2>1, Moves DEF ChatTyped, Registered, Quiet, Underway, WriteSessionFails,
        TurnCallFails, ChatFault
  <2>4. StopReaches(t)'
    BY <1>7, <2>1, Moves, Zenon
       DEF StopReaches, Underway, WriteSessionFails, TurnCallFails, ChatFault
  <2> QED
    BY <2>2, <2>3, <2>4, SerialFrom
<1>8. ASSUME NEW t \in Turns, DropLock(t) PROVE SerialTurns'
  <2>1. t \in InFlight /\ InFlight = {t} /\ Registered(t) /\ StopReaches(t)
    BY <1>8, Zenon DEF SerialTurns, InFlight, Underway, DropLock
  <2>2. InFlight' = {t}
    BY <1>8, <2>1, Moves, Zenon DEF InFlight, Underway, DropLock, TurnCallFails, ChatFault
  <2>3. Registered(t)'
    BY <1>8, <2>1, Moves, Zenon DEF ChatTyped, Registered, Quiet, Underway, DropLock, TurnCallFails,
        ChatFault
  <2>4. StopReaches(t)'
    BY <1>8, <2>1, Moves, Zenon DEF StopReaches, Underway, DropLock, TurnCallFails, ChatFault
  <2> QED
    BY <2>2, <2>3, <2>4, SerialFrom
<1>9. ASSUME NEW t \in Turns, EndTurn(t) PROVE SerialTurns'
  <2>1. t \in InFlight /\ InFlight = {t} /\ Registered(t) /\ StopReaches(t)
    BY <1>9, Zenon DEF SerialTurns, InFlight, Underway, EndTurn
  <2>2. InFlight' = {t}
    BY <1>9, <2>1, Moves DEF InFlight, Underway, EndTurn
  <2>3. Registered(t)'
    BY <1>9, <2>1, Moves, Zenon DEF ChatTyped, Registered, Quiet, Underway, EndTurn
  <2>4. StopReaches(t)'
    BY <1>9, <2>1, Moves DEF StopReaches, Underway, EndTurn
  <2> QED
    BY <2>2, <2>3, <2>4, SerialFrom
<1>10. ASSUME NEW t \in Turns, Unregister(t) PROVE SerialTurns'
  <2>1. t \in InFlight /\ InFlight = {t} /\ Registered(t) /\ StopReaches(t)
    BY <1>10, Zenon DEF SerialTurns, InFlight, Underway, Unregister
  <2>2. InFlight' = {t}
    BY <1>10, <2>1, Moves, Zenon DEF InFlight, Underway, Unregister, Unregistered, ChatFault
  <2>3. Registered(t)'
    BY <1>10, <2>1, Moves DEF ChatTyped, Registered, Quiet, Underway, Unregister, Unregistered,
        ChatFault
  <2>4. StopReaches(t)'
    BY <1>10, <2>1, Moves, Zenon DEF StopReaches, Underway, Unregister, Unregistered, ChatFault
  <2> QED
    BY <2>2, <2>3, <2>4, SerialFrom
<1>11. ASSUME NEW t \in Turns, UnregisterCancel(t) PROVE SerialTurns'
  <2>1. t \in InFlight /\ InFlight = {t} /\ Registered(t)
    BY <1>11, Zenon DEF SerialTurns, InFlight, Underway, UnregisterCancel
  <2>2. InFlight' = {}
    BY <1>11, <2>1, Zenon DEF ChatTyped, InFlight, Underway, UnregisterCancel, RestingTurn
  <2>3. sessionLock' = NoPod /\ owner' = NoPod
    BY <1>11, <2>1, Zenon DEF Registered, UnregisterCancel
  <2> QED
    BY <2>2, <2>3, SerialFrom, Zenon
<1>12. ASSUME NEW s \in Stops, NEW p \in Pods, StopLookup(s, p) PROVE SerialTurns'
  <2>1. InFlight' = InFlight /\ sessionLock' = sessionLock /\ owner' = owner
    BY <1>12, Zenon DEF InFlight, StopLookup
  <2>2. ASSUME NEW t \in InFlight PROVE Registered(t)' /\ StopReaches(t)'
    <3>1. Registered(t) /\ StopReaches(t) /\ t \in Turns
      BY <2>2, Zenon DEF SerialTurns, InFlight
    <3>2. Registered(t)'
      BY <1>12, <3>1, Zenon DEF Registered, StopLookup
    <3>3. StopReaches(t)'
      <4>1. \A z \in Stops : t \in stop'[z].aim => stop'[z].to = turn[t].pod
        BY <1>12, <3>1, Lookups, Zenon DEF StopReaches, Registered
      <4> QED
        BY <1>12, <3>1, <4>1, Zenon DEF StopReaches, StopLookup
    <3> QED
      BY <3>2, <3>3, Zenon
  <2> QED
    BY <2>1, <2>2, Zenon DEF SerialTurns
<1>13. ASSUME NEW s \in Stops, StopLookupFails(s) PROVE SerialTurns'
  BY <1>13 DEF Quiet, ChatTyped, StopLookupFails, ChatFault
<1>14. ASSUME NEW s \in Stops, StopSend(s) PROVE SerialTurns'
  <2>1. InFlight' = InFlight /\ sessionLock' = sessionLock /\ owner' = owner
    BY <1>14, Zenon DEF InFlight, StopSend
  <2>2. ASSUME NEW t \in InFlight PROVE Registered(t)' /\ StopReaches(t)'
    <3>1. Registered(t) /\ StopReaches(t) /\ t \in Turns
      BY <2>2, Zenon DEF SerialTurns, InFlight
    <3>2. Registered(t)'
      BY <1>14, <3>1, Zenon DEF Registered, StopSend
    <3>3. StopReaches(t)'
      <4>1. mail' = mail \cup {[id |-> s, to |-> stop[s].to]}
        BY <1>14 DEF Quiet, ChatTyped, StopSend, ChatFault
      <4>2. t \in stop[s].aim => \E m \in mail' : m.to = turn[t].pod
        <5>1. [id |-> s, to |-> stop[s].to] \in mail'
          BY <4>1, Zenon
        <5>2. t \in stop[s].aim => [id |-> s, to |-> stop[s].to].to = turn[t].pod
          BY <3>1, Zenon DEF StopReaches
        <5> QED
          BY <5>1, <5>2, Zenon
      <4>3. \A z \in Stops : t \in stop'[z].aim => stop'[z].to = turn[t].pod
        BY <1>14, <3>1, StopOver, Zenon DEF StopReaches, StopSend
      <4> QED
        BY <1>14, <3>1, <4>1, <4>2, <4>3, Zenon DEF StopReaches, StopSend
    <3> QED
      BY <3>2, <3>3, Zenon
  <2> QED
    BY <2>1, <2>2, Zenon DEF SerialTurns
<1>15. ASSUME NEW s \in Stops, StopLocal(s) PROVE SerialTurns'
  <2>1. InFlight' = InFlight /\ sessionLock' = sessionLock /\ owner' = owner /\ beating' = beating
    BY <1>15, Cancels DEF InFlight, StopLocal
  <2>2. ASSUME NEW t \in InFlight PROVE Registered(t)' /\ StopReaches(t)'
    <3>1. Registered(t) /\ StopReaches(t) /\ t \in Turns /\ turn[t].pod \in Pods
      BY <2>2, TurnFields, Zenon DEF SerialTurns, InFlight, ChatTyped
    <3>2. /\ turn'[t].pod = turn[t].pod /\ turn'[t].pc = turn[t].pc
          /\ turn'[t].cancelled = (turn[t].cancelled \/ t = cancels[stop[s].pod])
          /\ \A q \in Pods : q # stop[s].pod => cancels'[q] = cancels[q]
      BY <1>15, <3>1, Cancels DEF StopLocal
    <3>3. ~turn'[t].cancelled => turn[t].pod # stop[s].pod /\ ~turn[t].cancelled
      BY <3>1, <3>2, ZenonT(30) DEF Registered
    <3>4. Registered(t)'
      BY <2>1, <3>1, <3>2, <3>3, Zenon DEF Registered
    <3>5. StopReaches(t)'
      <4>1. \A z \in Stops : t \in stop'[z].aim => stop'[z].to = turn'[t].pod
        BY <1>15, <3>1, <3>2, StopOver, Zenon DEF StopReaches, StopLocal
      <4>2. t \in stop[s].aim => turn[t].pod = stop[s].pod
        BY <1>15, <3>1, Zenon DEF StopReaches, StopsAim, StopLocal
      <4>3. t \in asked' /\ ~turn'[t].cancelled => t \in asked
        BY <1>15, <3>3, <4>2, Zenon DEF StopLocal
      <4> QED
        BY <1>15, <3>1, <3>2, <3>3, <4>1, <4>3, Zenon DEF StopReaches, StopLocal
    <3> QED
      BY <3>4, <3>5
  <2> QED
    BY <2>1, <2>2, Zenon DEF SerialTurns
<1>16. ASSUME NEW m \in mail, HandleRemoteStop(m) PROVE SerialTurns'
  <2>1. InFlight' = InFlight /\ sessionLock' = sessionLock /\ owner' = owner /\ beating' = beating
    BY <1>16, Cancels DEF InFlight, HandleRemoteStop
  <2>2. ASSUME NEW t \in InFlight PROVE Registered(t)' /\ StopReaches(t)'
    <3>1. Registered(t) /\ StopReaches(t) /\ t \in Turns /\ turn[t].pod \in Pods
      BY <2>2, TurnFields, Zenon DEF SerialTurns, InFlight, ChatTyped
    <3>2. /\ turn'[t].pod = turn[t].pod /\ turn'[t].pc = turn[t].pc
          /\ turn'[t].cancelled = (turn[t].cancelled \/ t = cancels[m.to])
          /\ \A q \in Pods : q # m.to => cancels'[q] = cancels[q]
      BY <1>16, <3>1, Cancels DEF HandleRemoteStop
    <3>3. ~turn'[t].cancelled => turn[t].pod # m.to /\ ~turn[t].cancelled
      BY <3>1, <3>2, Zenon DEF Registered
    <3>4. Registered(t)'
      BY <2>1, <3>1, <3>2, <3>3, Zenon DEF Registered
    <3>5. StopReaches(t)'
      BY <1>16, <3>1, <3>2, <3>3, Zenon DEF StopReaches, HandleRemoteStop
    <3> QED
      BY <3>4, <3>5, Zenon
  <2> QED
    BY <2>1, <2>2, Zenon DEF SerialTurns
<1>17. ASSUME NEW m \in mail, LoseMail(m) PROVE SerialTurns'
  BY <1>17 DEF Quiet, ChatTyped, LoseMail, ChatFault
<1>18. ASSUME LockExpires PROVE SerialTurns'
  BY <1>18, Zenon DEF SerialTurns, Registered, StopReaches, InFlight, LockExpires
<1>19. ASSUME SessionExpires PROVE SerialTurns'
  <2>1. beating = {}
    BY <1>19 DEF Quiet, ChatTyped, SessionExpires, ChatFault
  <2> QED
    BY <1>19, <2>1 DEF SerialTurns, Registered, StopReaches, InFlight, SessionExpires
<1>20. ASSUME NEW p \in Pods, PodCrash(p) PROVE SerialTurns'
  BY <1>20 DEF Quiet, ChatTyped, PodCrash, ChatFault
<1> QED
  BY <1>1, <1>2, <1>3, <1>4, <1>5, <1>6, <1>7, <1>8, <1>9, <1>10, <1>11, <1>12, <1>13, <1>14, <1>15,
      <1>16, <1>17, <1>18, <1>19, <1>20, Zenon DEF ChatNext, ChatProceeds, TurnStep
-----------------------------------------------------------------------------

\* The inductive invariant holds in every reachable state.
THEOREM ChatInvariant == ChatSpec => []ChatInv
<1>1. ChatInit => ChatInv
  <2> SUFFICES ASSUME ChatInit PROVE ChatInv
    BY Zenon
  <2>1. ChatTyped
    BY RestingTyped, ChatAssumption, Zenon DEF ChatInit, ChatTyped
  <2>2. \A t \in Turns : turn[t].pc = "new"
    BY Zenon DEF ChatInit, RestingTurn
  <2>3. \A s \in Stops : stop[s].pc = "new" /\ stop[s].aim = {}
    BY Zenon DEF ChatInit, RestingStop
  <2>4. StopsAim
    BY <2>3, Zenon DEF ChatInit, StopsAim
  <2>5. SerialTurns
    BY <2>2, Zenon DEF ChatInit, SerialTurns, InFlight, Underway
  <2> QED
    BY <2>1, <2>4, <2>5, Zenon DEF ChatInv
<1>2. ChatInv /\ [ChatNext]_chatVars => ChatInv'
  BY ChatTypedKept, StopsAimKept, QuietBefore, SerialTurnsKept, Zenon DEF ChatInv
<1> QED
  BY <1>1, <1>2, PTL DEF ChatSpec

\* A turn that runs can be stopped from every replica, when the session's turns
\* were taken one after the other and nothing has failed: the registry names its
\* replica, and that replica's map holds its cancel function.
THEOREM ChatSerialStoppable == ChatSpec => []SerialTurnStoppable
<1>1. ChatInv => SerialTurnStoppable
  BY Zenon DEF ChatInv, SerialTurns, Registered, Quiet, InFlight, Underway, SerialTurnStoppable
<1> QED
  BY <1>1, ChatInvariant, PTL

\* A turn that a confirmed stop was for is over, is cancelled, or its replica has
\* a stop message to come, under the same conditions.
ConfirmedStopReaches ==
    Quiet => \A t \in asked \cap InFlight : turn[t].cancelled \/ \E m \in mail : m.to = turn[t].pod

\* What StopSession confirms is on its way: the safety half of ConfirmedStopEnds.
THEOREM ChatConfirmedStop == ChatSpec => []ConfirmedStopReaches
<1>1. ChatInv => ConfirmedStopReaches
  BY Zenon DEF ChatInv, SerialTurns, StopReaches, ConfirmedStopReaches
<1> QED
  BY <1>1, ChatInvariant, PTL
=============================================================================
