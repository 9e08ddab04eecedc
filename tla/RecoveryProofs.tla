---------------------------- MODULE RecoveryProofs ----------------------------
(***************************************************************************)
(* What HitlProposals guarantees for any number of proposals and callers   *)
(* (type correctness, that state changes follow the table, and that a      *)
(* confirmed decision is the one in force), and what RecoveryExecution     *)
(* adds for any number of executors, drills, crashes and failing           *)
(* statements (one mutation per approval, only authorised ones, and        *)
(* completion by the holder of the reservation).                           *)
(*                                                                         *)
(* The argument about proposals: a statement changes a row only along an   *)
(* edge of the table (RowEvolves), and a row that left pending keeps its   *)
(* decision, event and payload.  What a call carries from its read to its  *)
(* update (CallAgrees) is enough to know that for the update.              *)
(*                                                                         *)
(* The argument about executions: the update that reserves a proposal      *)
(* finds it approved and takes it to a set of states (Past) the table      *)
(* never leaves, so a second reservation cannot succeed.  Authority is     *)
(* checked at the read, and a row that exists never changes its payload or *)
(* its expiry.                                                             *)
(***************************************************************************)
EXTENDS RecoveryExecution, SequenceTheorems, TLAPS

\* A row that was decided says so.
RowAgrees(r) == r.state \in Decision => r.decided = r.state

\* What a call relies on between its statements.
CallAgrees(rows, k) ==
    /\ k.pc \in {"decide", "recheck"} => k.to \in Decision /\ k.event \in Events
    /\ k.pc = "decide" => rows[k.id].state # "absent" /\ rows[k.id].payload = k.payload
    /\ k.pc = "pause" \/ k.pc = "upsert" => k.from \in Pausable
    /\ k.pc = "complete" => /\ k.from \in {"approved", "resumed", "executed"}
                            /\ k.to \in {"executed", "failed", "rolled_back"}

\* An answer is about a row that was decided so.
Confirmed(rows, a) ==
    LET r == rows[a.id] IN
    /\ r.state \notin {"absent", "pending"}
    /\ r.decided = a.state /\ r.event = a.event /\ r.payload = a.payload

HitlInv ==
    /\ TypeOK
    /\ \A p \in Proposals : RowAgrees(row[p])
    /\ \A c \in Callers : CallAgrees(row, call[c])
    /\ \A a \in told : Confirmed(row, a)

\* The only ways a row changes.
RowEvolves(r, s) ==
    \/ s = r
    \/ r.state = "absent" /\ s.state = "pending"
    \/ /\ IsValidTransition(r.state, s.state)
       /\ s.payload = r.payload /\ s.expires = r.expires
       /\ r.state # "pending" => s.decided = r.decided /\ s.event = r.event
       /\ r.state # "approved" => s.lease = r.lease
       /\ s.state \in Decision => s.decided = s.state

-----------------------------------------------------------------------------
(* The update statement *)

\* Repo.Transition changes one row, along an edge of the table, to the given
\* columns.
LEMMA TransitionEffect ==
    ASSUME row \in [Proposals -> Row],
           NEW p \in Proposals, NEW from, NEW to \in States, NEW rest \in Row,
           Transition(p, from, to, rest)
    PROVE  /\ IsValidTransition(row[p].state, to)
           /\ row[p].state = from
           /\ row' \in [Proposals -> Row]
           /\ row'[p] = [rest EXCEPT !.state = to]
           /\ \A q \in Proposals : q # p => row'[q] = row[q]
<1> DEFINE new == [rest EXCEPT !.state = to]
<1>1. new \in Row
  BY Zenon DEF Row
<1>2. row' = [row EXCEPT ![p] = new]
  BY Zenon DEF Transition
<1> HIDE DEF new
<1>3. row' \in [Proposals -> Row] /\ row'[p] = new /\ \A q \in Proposals : q # p => row'[q] = row[q]
  BY <1>1, <1>2, Zenon
<1> QED
  BY <1>3, Zenon DEF Transition, new

\* A row that is decided or further never comes back to absent or pending, and
\* what an answer says of it stays true.
LEMMA EvolvedAnswers ==
    ASSUME HitlInv,
           \A p \in Proposals : RowEvolves(row[p], row'[p])
    PROVE  /\ \A a \in told : Confirmed(row', a)
           /\ \A p \in Proposals : RowAgrees(row[p])'
           /\ \A p \in Proposals : row[p].state # "absent" =>
                row'[p].state # "absent" /\ row'[p].payload = row[p].payload
                /\ row'[p].expires = row[p].expires
<1> USE DEF IsValidTransition, ValidTransitions, States
<1>1. ASSUME NEW p \in Proposals
      PROVE  /\ RowAgrees(row[p])'
             /\ row[p].state # "absent" =>
                  row'[p].state # "absent" /\ row'[p].payload = row[p].payload
                  /\ row'[p].expires = row[p].expires
             /\ row[p].state \notin {"absent", "pending"} =>
                  /\ row'[p].state \notin {"absent", "pending"}
                  /\ row'[p].decided = row[p].decided /\ row'[p].event = row[p].event
  <2>1. RowEvolves(row[p], row'[p]) /\ RowAgrees(row[p])
    BY Zenon DEF HitlInv
  <2> QED
    BY <2>1, Zenon DEF RowEvolves, RowAgrees, Decision
<1>2. ASSUME NEW a \in told
      PROVE  Confirmed(row', a)
  <2>1. a.id \in Proposals /\ Confirmed(row, a)
    BY Zenon DEF HitlInv, TypeOK
  <2> QED
    BY <2>1, <1>1, Zenon DEF Confirmed
<1> QED
  BY <1>1, <1>2, Zenon

-----------------------------------------------------------------------------
(* Every action *)

Evolves == \A p \in Proposals : RowEvolves(row[p], row'[p])

\* A call that goes from its read to its next statement changes the state of
\* one caller only.
LEMMA CallEffect ==
    ASSUME call \in [Callers -> Call], NEW c \in Callers, NEW k \in Call,
           call' = [call EXCEPT ![c] = k]
    PROVE  call' \in [Callers -> Call] /\ call'[c] = k
           /\ \A b \in Callers : b # c => call'[b] = call[b]
BY Zenon

\* A call that ends keeps its type and relies on nothing.
LEMMA IdleCall ==
    ASSUME NEW k \in Call
    PROVE  Idle(k) \in Call /\ Idle(k).pc = "idle"
BY Zenon DEF Call, Idle

\* A call nobody steps relies on a row that only evolves.
LEMMA CallKeeps ==
    ASSUME HitlInv, Evolves, NEW k \in Call, CallAgrees(row, k)
    PROVE  CallAgrees(row', k)
<1>1. k.id \in Proposals
  BY Zenon DEF Call
<1>2. row[k.id].state # "absent" =>
        row'[k.id].state # "absent" /\ row'[k.id].payload = row[k.id].payload
  BY <1>1, EvolvedAnswers, Zenon DEF Evolves
<1> QED
  BY <1>2, Zenon DEF CallAgrees

\* The step of one caller preserves the invariant if its row update evolves the
\* row, its next state is well formed and its answer is true.
LEMMA CallerStep ==
    ASSUME HitlInv, Evolves, NEW c \in Callers, NEW k \in Call,
           call' = [call EXCEPT ![c] = k],
           CallAgrees(row', k),
           row' \in [Proposals -> Row],
           token' \in [Proposals -> 0..(MaxPauses + 1) \cup {NoToken}],
           clock' = clock,
           \A a \in told' \ told :
              /\ a \in [id : Proposals, state : Decision, event : Events, payload : Payloads]
              /\ Confirmed(row', a)
    PROVE  HitlInv'
<1>1. call \in [Callers -> Call] /\ told \subseteq [id : Proposals, state : Decision,
                                                    event : Events, payload : Payloads]
      /\ clock \in 0..MaxClock
  BY Zenon DEF HitlInv, TypeOK
<1>2. call' \in [Callers -> Call] /\ call'[c] = k /\ \A b \in Callers : b # c => call'[b] = call[b]
  BY <1>1, CallEffect, Zenon
<1>3. ASSUME NEW b \in Callers PROVE CallAgrees(row', call'[b])
  <2>1. CASE b = c
    BY <2>1, <1>2, Zenon DEF CallAgrees
  <2>2. CASE b # c
    <3>1. call[b] \in Call /\ CallAgrees(row, call[b])
      BY <1>1, Zenon DEF HitlInv
    <3>2. call'[b] = call[b]
      BY <2>2, <1>2, Zenon
    <3> QED
      BY <3>1, <3>2, CallKeeps, Zenon
  <2> QED
    BY <2>1, <2>2, Zenon
<1>4. TypeOK'
  BY <1>1, <1>2, Zenon DEF TypeOK
<1>5. /\ \A a \in told : Confirmed(row', a)
      /\ \A p \in Proposals : RowAgrees(row[p])'
  BY EvolvedAnswers, Zenon DEF Evolves
<1> QED
  BY <1>3, <1>4, <1>5, Zenon DEF HitlInv

\* An update that keeps payload and expiry, and the decision once there is one,
\* evolves its row and leaves the others alone.
LEMMA TransitionEvolves ==
    ASSUME row \in [Proposals -> Row],
           NEW p \in Proposals, NEW from, NEW to \in States, NEW rest \in Row,
           Transition(p, from, to, rest),
           rest.payload = row[p].payload, rest.expires = row[p].expires,
           from # "pending" => rest.decided = row[p].decided /\ rest.event = row[p].event,
           from # "approved" => rest.lease = row[p].lease,
           to \in Decision => rest.decided = to
    PROVE  /\ Evolves
           /\ row' \in [Proposals -> Row]
           /\ row'[p] = [rest EXCEPT !.state = to]
<1> DEFINE new == [rest EXCEPT !.state = to]
<1>1. /\ new.state = to /\ new.payload = rest.payload /\ new.expires = rest.expires
      /\ new.decided = rest.decided /\ new.event = rest.event /\ new.lease = rest.lease
  BY Zenon DEF Row
<1>2. /\ IsValidTransition(row[p].state, to)
      /\ row[p].state = from
      /\ row' \in [Proposals -> Row]
      /\ row'[p] = new
      /\ \A q \in Proposals : q # p => row'[q] = row[q]
  BY TransitionEffect, Zenon
<1> HIDE DEF new
<1>3. RowEvolves(row[p], new)
  BY <1>1, <1>2, Zenon DEF RowEvolves
<1>4. Evolves
  BY <1>2, <1>3 DEF Evolves, RowEvolves
<1> QED
  BY <1>2, <1>4, Zenon DEF new

\* Where no row changes, every row evolves.
LEMMA SameRows == row' = row => Evolves
BY Zenon DEF Evolves, RowEvolves

\* A step that leaves calls and answers alone preserves the invariant.
LEMMA TableStep ==
    ASSUME HitlInv, Evolves, row' \in [Proposals -> Row],
           UNCHANGED <<token, call, told>>, clock' \in 0..MaxClock
    PROVE  HitlInv'
<1>1. TypeOK'
  BY Zenon DEF HitlInv, TypeOK
<1>2. /\ \A a \in told : Confirmed(row', a)
      /\ \A p \in Proposals : RowAgrees(row[p])'
  BY EvolvedAnswers, Zenon DEF Evolves
<1>3. ASSUME NEW b \in Callers PROVE CallAgrees(row', call'[b])
  <2>1. call[b] \in Call /\ CallAgrees(row, call[b])
    BY Zenon DEF HitlInv, TypeOK
  <2> QED
    BY <2>1, CallKeeps, Zenon
<1> QED
  BY <1>1, <1>2, <1>3, Zenon DEF HitlInv

\* An insert makes an absent row pending.
LEMMA CreateSafe ==
    ASSUME HitlInv, NEW p \in Proposals, NEW y \in Payloads, NEW exp \in 0..MaxClock,
           CreateAgentTeams(p, y, exp)
    PROVE  HitlInv' /\ Evolves
<1> DEFINE new == [row[p] EXCEPT !.state = "pending", !.payload = y, !.expires = exp]
<1>1. row \in [Proposals -> Row] /\ clock \in 0..MaxClock
  BY Zenon DEF HitlInv, TypeOK
<1>2. row' = [row EXCEPT ![p] = new] /\ row[p].state = "absent"
  BY <1>1, Zenon DEF CreateAgentTeams
<1>3. new \in Row /\ new.state = "pending"
  BY <1>1, ZenonT(30) DEF Row, States
<1> HIDE DEF new
<1>4. row' \in [Proposals -> Row]
  BY <1>1, <1>2, <1>3, Zenon
<1>5. Evolves
  BY <1>1, <1>2, <1>3, Zenon DEF Evolves, RowEvolves
<1> QED
  BY <1>1, <1>4, <1>5, TableStep, Zenon DEF CreateAgentTeams

\* Approve, Reject and Expire decide a pending row.
LEMMA DecideSafe ==
    ASSUME HitlInv, NEW p \in Proposals, NEW d \in Decision, Decide(p, d)
    PROVE  HitlInv' /\ Evolves
<1> DEFINE rest == [row[p] EXCEPT !.decided = d]
<1>1. row \in [Proposals -> Row] /\ clock \in 0..MaxClock
  BY Zenon DEF HitlInv, TypeOK
<1>2. rest \in Row /\ rest.payload = row[p].payload /\ rest.expires = row[p].expires
      /\ rest.decided = d /\ rest.lease = row[p].lease
  BY <1>1, Zenon DEF Row
<1>3. Transition(p, "pending", d, rest) /\ UNCHANGED <<token, call, told, clock>>
  BY Zenon DEF Decide
<1>4. d \in States
  BY Zenon DEF Decision, States
<1> HIDE DEF rest
<1>5. Evolves /\ row' \in [Proposals -> Row]
  BY <1>1, <1>2, <1>3, <1>4, TransitionEvolves, Zenon
<1> QED
  BY <1>1, <1>3, <1>5, TableStep, Zenon

\* The read of TransitionAgentTeams answers only for the decision in force.
LEMMA DecideGetSafe ==
    ASSUME HitlInv, NEW c \in Callers, NEW p \in Proposals, NEW d \in Decision,
           NEW e \in Events, NEW y \in Payloads, DecideGet(c, p, d, e, y)
    PROVE  HitlInv' /\ Evolves
<1>1. TypeOK /\ call[c] \in Call /\ CallAgrees(row, call[c]) /\ RowAgrees(row[p])
  BY Zenon DEF HitlInv, TypeOK
<1>2. Evolves /\ row' = row
  BY SameRows, Zenon DEF DecideGet
<1>3. CASE row[p].state = d /\ told' = told \cup {Answer(p, d, e, y)} /\ UNCHANGED call
  <2>1. row[p].event = e /\ row[p].payload = y
    BY <1>3, Zenon DEF DecideGet, Decision
  <2>2. Confirmed(row', Answer(p, d, e, y))
    BY <1>1, <1>2, <1>3, <2>1, Zenon DEF Confirmed, Answer, RowAgrees, Decision
  <2>3. Answer(p, d, e, y) \in [id : Proposals, state : Decision, event : Events,
                                payload : Payloads]
    BY Zenon DEF Answer
  <2>4. call' = [call EXCEPT ![c] = call[c]]
    BY <1>1, <1>3, Zenon DEF TypeOK
  <2>5. CallAgrees(row', call[c])
    BY <1>1, <1>2, Zenon
  <2>6. row' \in [Proposals -> Row] /\ clock' = clock
        /\ token' \in [Proposals -> 0..(MaxPauses + 1) \cup {NoToken}]
    BY <1>1, Zenon DEF DecideGet, TypeOK
  <2> QED
    BY <1>1, <1>2, <1>3, <2>2, <2>3, <2>4, <2>5, <2>6, CallerStep, Zenon
<1> DEFINE k == [call[c] EXCEPT !.pc = "decide", !.id = p, !.payload = y,
                                !.from = "pending", !.to = d, !.event = e]
<1>4. CASE row[p].state = "pending" /\ call' = [call EXCEPT ![c] = k] /\ UNCHANGED told
  <2>1. k \in Call /\ k.pc = "decide" /\ k.id = p /\ k.payload = y /\ k.to = d /\ k.event = e
    BY <1>1, Zenon DEF Call, States, Decision
  <2> HIDE DEF k
  <2>2. row[p].payload = y
    BY Zenon DEF DecideGet
  <2>3. CallAgrees(row', k)
    BY <2>1, <2>2, <1>2, <1>4, Zenon DEF CallAgrees
  <2> QED
    BY <1>1, <1>2, <1>4, <2>1, <2>3, CallerStep, Zenon DEF DecideGet, TypeOK
<1> QED
  BY <1>3, <1>4, Zenon DEF DecideGet

\* The columns a decision writes.
LEMMA DecidedRowFacts ==
    ASSUME row \in [Proposals -> Row], NEW p \in Proposals, NEW d \in Decision, NEW e \in Events
    PROVE  /\ DecidedRow(p, d, e) \in Row
           /\ DecidedRow(p, d, e).payload = row[p].payload
           /\ DecidedRow(p, d, e).expires = row[p].expires
           /\ DecidedRow(p, d, e).decided = d
           /\ DecidedRow(p, d, e).event = e
           /\ DecidedRow(p, d, e).lease = row[p].lease
<1>1. row[p] \in Row
  BY Zenon
<1> QED
  BY <1>1, Zenon DEF Row, DecidedRow

\* The UPDATE of TransitionAgentTeams decides the row it read, or loses.
LEMMA DecideUpdateSafe ==
    ASSUME HitlInv, NEW c \in Callers, DecideUpdate(c)
    PROVE  HitlInv' /\ Evolves
<1> DEFINE k == call[c]
           rest == DecidedRow(k.id, k.to, k.event)
<1>1. TypeOK /\ k \in Call /\ CallAgrees(row, k)
  BY Zenon DEF HitlInv, TypeOK
<1>2. k.pc = "decide" /\ k.id \in Proposals /\ k.payload \in Payloads /\ k.to \in Decision
      /\ k.event \in Events /\ k.to \in States /\ row[k.id].payload = k.payload
  BY <1>1, Zenon DEF DecideUpdate, Call, CallAgrees
<1>3. UNCHANGED <<token, clock>>
  BY Zenon DEF DecideUpdate
<1>4. CASE /\ Transition(k.id, "pending", k.to, rest)
           /\ told' = told \cup {Answer(k.id, k.to, k.event, k.payload)}
           /\ call' = [call EXCEPT ![c] = Idle(@)]
  <2>1. /\ rest \in Row /\ rest.payload = row[k.id].payload
        /\ rest.expires = row[k.id].expires /\ rest.decided = k.to /\ rest.event = k.event
        /\ rest.lease = row[k.id].lease
    BY <1>1, <1>2, DecidedRowFacts DEF TypeOK
  <2> DEFINE new == [rest EXCEPT !.state = k.to]
  <2>2. new.state = k.to /\ new.payload = rest.payload /\ new.decided = rest.decided
        /\ new.event = rest.event
    BY <2>1, Zenon DEF Row
  <2> HIDE DEF rest
  <2>3. Evolves /\ row' \in [Proposals -> Row] /\ row'[k.id] = new
    <3>1. row \in [Proposals -> Row]
      BY <1>1, Zenon DEF TypeOK
    <3> HIDE DEF k
    <3> QED
      BY <1>2, <1>4, <2>1, <3>1, TransitionEvolves
  <2> HIDE DEF new
  <2>4. Confirmed(row', Answer(k.id, k.to, k.event, k.payload))
    BY <1>2, <2>1, <2>2, <2>3, Zenon DEF Confirmed, Answer, Decision
  <2>5. Answer(k.id, k.to, k.event, k.payload)
          \in [id : Proposals, state : Decision, event : Events, payload : Payloads]
    BY <1>2, Zenon DEF Answer
  <2>6. Idle(k) \in Call /\ CallAgrees(row', Idle(k))
    BY <1>1, IdleCall, Zenon DEF CallAgrees
  <2>7. call' = [call EXCEPT ![c] = Idle(k)]
    BY <1>4, Zenon
  <2> QED
    BY <1>1, <1>3, <1>4, <2>3, <2>4, <2>5, <2>6, <2>7, CallerStep, Zenon DEF TypeOK
<1>5. CASE call' = [call EXCEPT ![c].pc = "recheck"] /\ UNCHANGED <<row, told>>
  <2> DEFINE k2 == [k EXCEPT !.pc = "recheck"]
  <2>1. k2 \in Call /\ k2.pc = "recheck" /\ k2.to = k.to /\ k2.event = k.event
    BY <1>1, Zenon DEF Call
  <2>2. call' = [call EXCEPT ![c] = k2]
    BY <1>1, <1>5, Zenon DEF TypeOK
  <2> HIDE DEF k2
  <2>3. CallAgrees(row', k2)
    BY <1>2, <2>1, Zenon DEF CallAgrees
  <2> QED
    BY <1>1, <1>3, <1>5, <2>1, <2>2, <2>3, SameRows, CallerStep, Zenon DEF TypeOK
<1> QED
  BY <1>4, <1>5, Zenon DEF DecideUpdate

\* After a conflict the caller is told yes only for its own decision.
LEMMA DecideRecheckSafe ==
    ASSUME HitlInv, NEW c \in Callers, DecideRecheck(c)
    PROVE  HitlInv' /\ Evolves
<1> DEFINE k == call[c]
           a == Answer(k.id, k.to, k.event, k.payload)
<1>1. TypeOK /\ k \in Call /\ CallAgrees(row, k)
  BY DEF HitlInv, TypeOK
<1>2. /\ k.id \in Proposals /\ k.payload \in Payloads /\ k.to \in Decision /\ k.event \in Events
      /\ RowAgrees(row[k.id])
  BY <1>1, Zenon DEF DecideRecheck, Call, CallAgrees, HitlInv
<1>3. UNCHANGED <<row, token, clock>> /\ call' = [call EXCEPT ![c] = Idle(k)]
  BY Zenon DEF DecideRecheck
<1>4. Idle(k) \in Call /\ CallAgrees(row', Idle(k))
  BY <1>1, IdleCall DEF CallAgrees
<1>5. SameDecision(k) => Confirmed(row', a)
  BY <1>2, <1>3, Zenon DEF SameDecision, Confirmed, Answer, RowAgrees, Decision
<1>6. a \in [id : Proposals, state : Decision, event : Events, payload : Payloads]
  BY <1>2, Zenon DEF Answer
<1>7. told' = told \/ (SameDecision(k) /\ told' = told \cup {a})
  BY Zenon DEF DecideRecheck
<1> HIDE DEF a, k
<1>8. \A b \in told' \ told :
        /\ b \in [id : Proposals, state : Decision, event : Events, payload : Payloads]
        /\ Confirmed(row', b)
  BY <1>5, <1>6, <1>7, Zenon
<1> QED
  BY <1>1, <1>3, <1>4, <1>8, SameRows, CallerStep, Zenon DEF TypeOK

\* The reads that open Pause, Resume and Complete carry the state they saw.
LEMMA GetsSafe ==
    ASSUME HitlInv, NEW c \in Callers, NEW p \in Proposals,
           \/ PauseGet(c, p)
           \/ ResumeGet(c, p)
           \/ \E s \in {"executed", "failed", "rolled_back"} : CompleteGet(c, p, s)
    PROVE  HitlInv' /\ Evolves
<1>1. TypeOK /\ call[c] \in Call /\ row[p] \in Row
  BY Zenon DEF HitlInv, TypeOK
<1>2. UNCHANGED <<row, token, told, clock>>
  BY Zenon DEF PauseGet, ResumeGet, CompleteGet
<1>3. ASSUME NEW k \in Call, call' = [call EXCEPT ![c] = k], CallAgrees(row, k)
      PROVE  HitlInv' /\ Evolves
  BY <1>1, <1>2, <1>3, SameRows, CallerStep, Zenon DEF TypeOK
<1>4. CASE PauseGet(c, p)
  <2> DEFINE k == [call[c] EXCEPT !.pc = "upsert", !.id = p, !.from = row[p].state,
                                  !.version = row[p].version + 1]
  <2>1. row[p].state \in Pausable /\ row[p].state \in States \cup {"absent"}
        /\ row[p].version + 1 \in 0..(MaxPauses + 1)
    BY <1>1, <1>4, HitlAssumption DEF PauseGet, Row
  <2>2. k \in Call /\ k.pc = "upsert" /\ k.from = row[p].state
    BY <1>1, <2>1, Zenon DEF Call
  <2>3. call' = [call EXCEPT ![c] = k]
    BY <1>4, Zenon DEF PauseGet
  <2> HIDE DEF k
  <2>4. CallAgrees(row, k)
    BY <2>1, <2>2, Zenon DEF CallAgrees
  <2> QED
    BY <1>3, <2>2, <2>3, <2>4, Zenon
<1>5. CASE ResumeGet(c, p)
  <2> DEFINE k == [call[c] EXCEPT !.pc = "resume", !.id = p, !.from = "paused"]
  <2>1. k \in Call /\ k.pc = "resume"
    BY <1>1, Zenon DEF Call, States
  <2>2. call' = [call EXCEPT ![c] = k]
    BY <1>5, Zenon DEF ResumeGet
  <2> HIDE DEF k
  <2>3. CallAgrees(row, k)
    BY <2>1, Zenon DEF CallAgrees
  <2> QED
    BY <1>3, <2>1, <2>2, <2>3, Zenon
<1>6. ASSUME NEW s \in {"executed", "failed", "rolled_back"}, CompleteGet(c, p, s)
      PROVE  HitlInv' /\ Evolves
  <2> DEFINE k == [call[c] EXCEPT !.pc = "complete", !.id = p, !.from = row[p].state, !.to = s]
  <2>1. row[p].state \in {"approved", "resumed", "executed"} /\ s \in States
    BY <1>6, Zenon DEF CompleteGet, States
  <2>2. k \in Call /\ k.pc = "complete" /\ k.from = row[p].state /\ k.to = s
    BY <1>1, <2>1, ZenonT(40) DEF Call, States
  <2>3. call' = [call EXCEPT ![c] = k]
    BY <1>6, Zenon DEF CompleteGet
  <2> HIDE DEF k
  <2>4. CallAgrees(row, k)
    BY <2>1, <2>2, Zenon DEF CallAgrees
  <2> QED
    BY <1>3, <2>2, <2>3, <2>4, Zenon
<1> QED
  BY <1>4, <1>5, <1>6, Zenon

\* The writes of the resume token leave the proposals alone.
LEMMA TokenSafe ==
    ASSUME HitlInv, NEW c \in Callers, PauseUpsert(c) \/ DeleteToken(c)
    PROVE  HitlInv' /\ Evolves
<1> DEFINE k == call[c]
<1>1. TypeOK /\ k \in Call /\ CallAgrees(row, k)
  BY Zenon DEF HitlInv, TypeOK
<1>2. UNCHANGED <<row, told, clock>>
  BY Zenon DEF PauseUpsert, DeleteToken
<1>3. token' \in [Proposals -> 0..(MaxPauses + 1) \cup {NoToken}]
  <2>1. k.version \in 0..(MaxPauses + 1)
    BY <1>1, Zenon DEF Call
  <2> QED
    BY <1>1, <2>1, Zenon DEF PauseUpsert, DeleteToken, TypeOK
<1>4. CASE PauseUpsert(c)
  <2> DEFINE k2 == [k EXCEPT !.pc = "pause"]
  <2>1. k2 \in Call /\ k2.pc = "pause" /\ k2.from = k.from
    BY <1>1, Zenon DEF Call
  <2>2. call' = [call EXCEPT ![c] = k2]
    BY <1>1, <1>4, Zenon DEF PauseUpsert, TypeOK
  <2> HIDE DEF k2
  <2>3. CallAgrees(row', k2)
    BY <1>1, <1>4, <2>1, Zenon DEF CallAgrees, PauseUpsert
  <2> QED
    BY <1>1, <1>2, <1>3, <2>1, <2>2, <2>3, SameRows, CallerStep, Zenon DEF TypeOK
<1>5. CASE DeleteToken(c)
  <2>1. Idle(k) \in Call /\ CallAgrees(row', Idle(k))
    BY <1>1, IdleCall, Zenon DEF CallAgrees
  <2>2. call' = [call EXCEPT ![c] = Idle(k)]
    BY <1>5, Zenon DEF DeleteToken
  <2> QED
    BY <1>1, <1>2, <1>3, <2>1, <2>2, SameRows, CallerStep, Zenon DEF TypeOK
<1> QED
  BY <1>4, <1>5, Zenon

\* The UPDATEs of Pause, Resume and Complete move a row along the edge they
\* read, or change nothing.
LEMMA UpdatesSafe ==
    ASSUME HitlInv, NEW c \in Callers,
           PauseUpdate(c) \/ ResumeUpdate(c) \/ CompleteUpdate(c)
    PROVE  HitlInv' /\ Evolves
<1> DEFINE k == call[c]
<1>1. TypeOK /\ k \in Call /\ CallAgrees(row, k)
  BY Zenon DEF HitlInv, TypeOK
<1>2. k.id \in Proposals /\ row[k.id] \in Row /\ k.to \in States
  BY <1>1, Zenon DEF Call, TypeOK
<1>3. UNCHANGED <<token, told, clock>>
  BY Zenon DEF PauseUpdate, ResumeUpdate, CompleteUpdate
<1>4. \E k2 \in Call : /\ call' = [call EXCEPT ![c] = k2]
                       /\ k2.pc \in {"idle", "undo", "clean"}
  <2>1. Idle(k) \in Call /\ Idle(k).pc = "idle"
    BY <1>1, IdleCall, Zenon
  <2>2. ASSUME NEW s \in {"undo", "clean"}
        PROVE  /\ [k EXCEPT !.pc = s] \in Call /\ [k EXCEPT !.pc = s].pc = s
               /\ [call EXCEPT ![c].pc = s] = [call EXCEPT ![c] = [k EXCEPT !.pc = s]]
    BY <1>1, Zenon DEF Call, TypeOK
  <2>3. \/ call' = [call EXCEPT ![c] = Idle(k)]
        \/ call' = [call EXCEPT ![c].pc = "undo"]
        \/ call' = [call EXCEPT ![c].pc = "clean"]
    BY Zenon DEF PauseUpdate, ResumeUpdate, CompleteUpdate
  <2> QED
    BY <2>1, <2>2, <2>3, Zenon
<1>5. ASSUME Evolves, row' \in [Proposals -> Row]
      PROVE  HitlInv'
  <2>1. PICK k2 \in Call : /\ call' = [call EXCEPT ![c] = k2]
                           /\ k2.pc \in {"idle", "undo", "clean"}
    BY <1>4, Zenon
  <2>2. CallAgrees(row', k2)
    BY <2>1, Zenon DEF CallAgrees
  <2> QED
    BY <1>1, <1>3, <1>5, <2>1, <2>2, CallerStep, Zenon DEF TypeOK
<1>6. CASE UNCHANGED row
  BY <1>1, <1>5, <1>6, SameRows, Zenon DEF TypeOK
<1>7. CASE /\ k.pc = "pause" /\ row[k.id].version < MaxPauses
           /\ Transition(k.id, k.from, "paused", PausedRow(row[k.id]))
  <2> DEFINE rest == PausedRow(row[k.id])
  <2>1. row[k.id].version + 1 \in 0..MaxPauses
    BY <1>2, <1>7, HitlAssumption DEF Row
  <2>2. /\ rest \in Row /\ rest.payload = row[k.id].payload /\ rest.expires = row[k.id].expires
        /\ rest.decided = row[k.id].decided /\ rest.event = row[k.id].event
        /\ rest.lease = row[k.id].lease
    BY <1>2, <2>1, Zenon DEF Row, PausedRow
  <2>3. "paused" \in States /\ "paused" \notin Decision
    BY Zenon DEF States, Decision
  <2> HIDE DEF rest
  <2>4. Evolves /\ row' \in [Proposals -> Row]
    BY <1>1, <1>2, <1>7, <2>2, <2>3, TransitionEvolves, Zenon DEF TypeOK, rest
  <2> QED
    BY <1>5, <2>4, Zenon
<1>8. CASE Transition(k.id, "paused", "resumed", row[k.id])
  <2>1. "resumed" \in States /\ "resumed" \notin Decision
    BY Zenon DEF States, Decision
  <2>2. Evolves /\ row' \in [Proposals -> Row]
    BY <1>1, <1>2, <1>8, <2>1, TransitionEvolves, Zenon DEF TypeOK
  <2> QED
    BY <1>5, <2>2
<1>9. CASE k.pc = "complete" /\ Transition(k.id, k.from, k.to, row[k.id])
  <2>1. k.to \notin Decision
    BY <1>1, <1>9, Zenon DEF CallAgrees, Decision
  <2>2. Evolves /\ row' \in [Proposals -> Row]
    BY <1>1, <1>2, <1>9, <2>1, TransitionEvolves, Zenon DEF TypeOK
  <2> QED
    BY <1>5, <2>2
<1> QED
  BY <1>6, <1>7, <1>8, <1>9, Zenon DEF PauseUpdate, ResumeUpdate, CompleteUpdate

-----------------------------------------------------------------------------
(* The theorems *)

\* The empty tables satisfy the invariant.
LEMMA HitlInvInit == Init => HitlInv
<1> SUFFICES ASSUME Init PROVE HitlInv
  BY Zenon
<1>1. (CHOOSE y \in Payloads : TRUE) \in Payloads /\ (CHOOSE p \in Proposals : TRUE) \in Proposals
  BY HitlAssumption, Zenon
<1>2. row \in [Proposals -> Row] /\ \A p \in Proposals : row[p].state = "absent"
  BY <1>1, HitlAssumption DEF Init, Row, NoTime
<1>3. call \in [Callers -> Call] /\ \A c \in Callers : call[c].pc = "idle"
  BY <1>1, HitlAssumption DEF Init, Call, States
<1>4. TypeOK
  BY <1>2, <1>3, HitlAssumption DEF Init, TypeOK
<1> QED
  BY <1>2, <1>3, <1>4, Zenon DEF Init, HitlInv, RowAgrees, CallAgrees, Decision

\* Every statement of the service preserves the invariant and changes rows
\* only along the table.
LEMMA HitlStep == HitlInv /\ [Next]_hitlVars => HitlInv' /\ Evolves
<1> SUFFICES ASSUME HitlInv, [Next]_hitlVars PROVE HitlInv' /\ Evolves
  BY Zenon
<1>0. TypeOK
  BY Zenon DEF HitlInv
<1>1. CASE UNCHANGED hitlVars \/ Tick
  <2>1. row' = row /\ UNCHANGED <<token, call, told>> /\ clock' \in 0..MaxClock
    BY <1>0, <1>1, HitlAssumption DEF hitlVars, Tick, TypeOK
  <2> QED
    BY <1>0, <2>1, SameRows, TableStep, Zenon DEF TypeOK
<1>2. ASSUME NEW p \in Proposals, NEW y \in Payloads, NEW exp \in 0..MaxClock,
             CreateAgentTeams(p, y, exp)
      PROVE  HitlInv' /\ Evolves
  BY <1>2, CreateSafe, Zenon
<1>3. ASSUME NEW p \in Proposals, NEW d \in Decision, Decide(p, d)
      PROVE  HitlInv' /\ Evolves
  BY <1>3, DecideSafe, Zenon
<1>4. ASSUME NEW c \in Callers, ServiceStep(c)
      PROVE  HitlInv' /\ Evolves
  <2>1. ASSUME NEW p \in Proposals, NEW d \in Decision, NEW e \in Events, NEW y \in Payloads,
               DecideGet(c, p, d, e, y)
        PROVE  HitlInv' /\ Evolves
    BY <2>1, DecideGetSafe, Zenon
  <2>2. ASSUME NEW p \in Proposals,
               \/ PauseGet(c, p) \/ ResumeGet(c, p)
               \/ \E s \in {"executed", "failed", "rolled_back"} : CompleteGet(c, p, s)
        PROVE  HitlInv' /\ Evolves
    BY <2>2, GetsSafe, Zenon
  <2>3. CASE PauseUpsert(c) \/ DeleteToken(c)
    BY <2>3, TokenSafe, Zenon
  <2>4. CASE PauseUpdate(c) \/ ResumeUpdate(c) \/ CompleteUpdate(c)
    BY <2>4, UpdatesSafe, Zenon
  <2> QED
    BY <1>4, <2>1, <2>2, <2>3, <2>4, DecideUpdateSafe, DecideRecheckSafe, Zenon DEF ServiceStep
<1> QED
  BY <1>1, <1>2, <1>3, <1>4, Zenon DEF Next

\* The invariant holds of every reachable state of the proposal service.
THEOREM HitlSafe == Spec => []HitlInv
BY HitlInvInit, HitlStep, PTL DEF Spec

\* The tables and the calls keep their types.
THEOREM HitlTypeCorrect == Spec => []TypeOK
<1>1. HitlInv => TypeOK
  BY Zenon DEF HitlInv
<1> QED
  BY <1>1, HitlSafe, PTL

\* Whatever calls race, a decision that a caller of TransitionAgentTeams was
\* told is in force is the one the proposal left pending by.
THEOREM AnswersCorrect == Spec => []AnswersTruthful
<1>1. HitlInv => AnswersTruthful
  BY Zenon DEF HitlInv, AnswersTruthful, Confirmed
<1> QED
  BY <1>1, HitlSafe, PTL

\* No interleaving of the service's statements takes a proposal off the table
\* ValidTransitions.
THEOREM TableFollowed == Spec => StepsFollowTable
<1>1. HitlInv /\ [Next]_hitlVars =>
        [\A p \in Proposals :
           row'[p].state # row[p].state =>
             \/ row[p].state = "absent" /\ row'[p].state = "pending"
             \/ IsValidTransition(row[p].state, row'[p].state)]_hitlVars
  BY HitlStep, Zenon DEF Evolves, RowEvolves
<1> QED
  BY <1>1, HitlSafe, PTL DEF Spec, StepsFollowTable

-----------------------------------------------------------------------------
(* The executor and the drills.                                            *)

\* The states a reserved proposal can be in.
Past == {"executing", "executed", "failed", "rolled_back"}

\* A reservation was made of the row, and it was an approved one.
Spent(r) == r.state \in Past /\ r.decided = "approved" /\ r.lease # NoTime

\* The row still carries what was read before its expiry.
Authorised(r, y, now) == r.payload = y /\ now < r.expires

Ran(fx, x, k) == \E i \in DOMAIN fx : fx[i].id = k.id /\ fx[i].by = x /\ fx[i].ok = k.ok

\* What executor x relies on between its statements.
ExecAgrees(rows, fx, x, k) ==
    /\ k.pc = "reserve" => /\ Gated(x) /\ rows[k.id].state # "absent"
                           /\ Authorised(rows[k.id], k.payload, k.now)
    /\ k.pc = "dispatch" /\ Gated(x) => /\ Spent(rows[k.id])
                                        /\ Authorised(rows[k.id], k.payload, k.now)
    /\ k.pc \in {"complete", "update"} /\ Gated(x) => Spent(rows[k.id]) /\ Ran(fx, x, k)
    /\ k.pc = "update" /\ Gated(x) /\ k.to = "executed" => k.ok /\ k.now < rows[k.id].lease

EffectAgrees(rows, e) == Spent(rows[e.id]) /\ Authorised(rows[e.id], e.payload, e.now)

RecoveryInv ==
    /\ HitlInv
    /\ RecoveryTypeOK
    /\ \A x \in Executors : ExecAgrees(row, effects, x, exec[x])
    /\ \A i \in DOMAIN effects : EffectAgrees(row, effects[i])
    /\ OneMutation
    /\ OneReservation

-----------------------------------------------------------------------------
(* What evolving rows keep *)

\* A spent row stays spent, and authority once read stays.
LEMMA SpentStays ==
    ASSUME HitlInv, Evolves, NEW p \in Proposals
    PROVE  /\ Spent(row[p]) => Spent(row'[p]) /\ row'[p].lease = row[p].lease
           /\ row[p].state # "absent" => /\ row'[p].state # "absent"
                                         /\ row'[p].payload = row[p].payload
                                         /\ row'[p].expires = row[p].expires
<1>1. RowEvolves(row[p], row'[p])
  BY Zenon DEF Evolves
<1>2. row[p].state # "absent" => /\ row'[p].state # "absent"
                                 /\ row'[p].payload = row[p].payload
                                 /\ row'[p].expires = row[p].expires
  BY EvolvedAnswers, Zenon DEF Evolves
<1> QED
  BY <1>1, <1>2, Zenon DEF RowEvolves, Spent, Past, IsValidTransition, ValidTransitions, States

\* An executor nobody steps keeps what it relies on.
LEMMA ExecKeeps ==
    ASSUME HitlInv, Evolves, NEW x, NEW k \in Exec, NEW fx, ExecAgrees(row, fx, x, k)
    PROVE  ExecAgrees(row', fx, x, k)
<1>1. k.id \in Proposals
  BY Zenon DEF Exec
<1>2. Spent(row[k.id]) => row[k.id].state # "absent"
  BY Zenon DEF Spent, Past
<1> QED
  BY <1>1, <1>2, SpentStays, Zenon DEF ExecAgrees, Authorised

\* The mutations behind keep their authority.
LEMMA EffectsKeep ==
    ASSUME HitlInv, Evolves, RecoveryTypeOK, \A i \in DOMAIN effects : EffectAgrees(row, effects[i])
    PROVE  \A i \in DOMAIN effects : EffectAgrees(row', effects[i])
<1> SUFFICES ASSUME NEW i \in DOMAIN effects PROVE EffectAgrees(row', effects[i])
  BY Zenon
<1>1. effects[i].id \in Proposals
  <2>1. effects \in Seq(Effect) /\ i \in DOMAIN effects
    BY Zenon DEF RecoveryTypeOK
  <2>2. effects[i] \in Effect
    BY <2>1
  <2> QED
    BY <2>2, Zenon DEF Effect
<1>2. EffectAgrees(row, effects[i])
  BY Zenon
<1>3. row[effects[i].id].state # "absent"
  BY <1>2, Zenon DEF EffectAgrees, Spent, Past
<1> QED
  BY <1>1, <1>2, <1>3, SpentStays, Zenon DEF EffectAgrees, Authorised

-----------------------------------------------------------------------------
(* Steps *)

\* A step of the tables alone preserves the invariant.
LEMMA RowsStep ==
    ASSUME RecoveryInv, HitlInv', Evolves, UNCHANGED <<exec, effects, lost, execFaults>>
    PROVE  RecoveryInv'
<1>1. ASSUME NEW x \in Executors PROVE ExecAgrees(row', effects', x, exec'[x])
  <2>1. exec[x] \in Exec /\ ExecAgrees(row, effects, x, exec[x])
    BY Zenon DEF RecoveryInv, RecoveryTypeOK
  <2> QED
    BY <2>1, ExecKeeps, Zenon DEF RecoveryInv
<1>2. \A i \in DOMAIN effects' : EffectAgrees(row', effects'[i])
  BY EffectsKeep, Zenon DEF RecoveryInv
<1>3. RecoveryTypeOK' /\ OneMutation' /\ OneReservation'
  BY Zenon DEF RecoveryInv, RecoveryTypeOK, OneMutation, OneReservation
<1> QED
  BY <1>1, <1>2, <1>3, Zenon DEF RecoveryInv

\* A step of one executor that dispatches nothing preserves the invariant if
\* its next state is well formed and any reservation it makes is the first.
LEMMA ExecutorStepSafe ==
    ASSUME RecoveryInv, HitlInv', Evolves, NEW x \in Executors, NEW k \in Exec,
           exec' = [exec EXCEPT ![x] = k], effects' = effects,
           lost' \subseteq Proposals, execFaults' \in 0..MaxExecFaults,
           ExecAgrees(row', effects, x, k),
           (Gated(x) /\ k.pc = "dispatch") =>
              /\ \A i \in DOMAIN effects : effects[i].id # k.id
              /\ \A z \in Executors : (Gated(z) /\ exec[z].pc = "dispatch") => exec[z].id # k.id
    PROVE  RecoveryInv'
<1>1. exec \in [Executors -> Exec] /\ effects \in Seq(Effect)
  BY Zenon DEF RecoveryInv, RecoveryTypeOK
<1>2. exec' \in [Executors -> Exec] /\ exec'[x] = k
      /\ \A z \in Executors : z # x => exec'[z] = exec[z]
  BY <1>1, Zenon
<1>3. ASSUME NEW z \in Executors PROVE ExecAgrees(row', effects', z, exec'[z])
  <2>1. exec[z] \in Exec /\ ExecAgrees(row, effects, z, exec[z])
    BY <1>1, Zenon DEF RecoveryInv
  <2>2. ExecAgrees(row', effects, z, exec[z])
    BY <2>1, ExecKeeps, Zenon DEF RecoveryInv
  <2> QED
    BY <1>2, <2>2, Zenon
<1>4. \A i \in DOMAIN effects' : EffectAgrees(row', effects'[i])
  BY EffectsKeep, Zenon DEF RecoveryInv
<1>5. RecoveryTypeOK' /\ OneMutation'
  BY <1>1, <1>2, Zenon DEF RecoveryInv, RecoveryTypeOK, OneMutation
<1>6. OneReservation'
  <2> SUFFICES ASSUME NEW z \in Executors, Gated(z), exec'[z].pc = "dispatch"
               PROVE  /\ \A i \in DOMAIN effects : effects[i].id # exec'[z].id
                      /\ \A w \in Executors :
                           (Gated(w) /\ exec'[w].pc = "dispatch" /\ exec'[w].id = exec'[z].id)
                              => w = z
    BY Zenon DEF OneReservation, Gated
  <2>1. OneReservation
    BY Zenon DEF RecoveryInv
  <2> QED
    BY <1>2, <2>1 DEF OneReservation
<1> QED
  BY <1>3, <1>4, <1>5, <1>6, Zenon DEF RecoveryInv

\* What the tool's own statements on the proposal table do: they are updates
\* as the service makes them.
LEMMA OwnUpdate ==
    ASSUME RecoveryInv, NEW p \in Proposals, NEW from, NEW to \in States \ Decision, NEW rest \in Row,
           Transition(p, from, to, rest),
           rest.payload = row[p].payload, rest.expires = row[p].expires,
           rest.decided = row[p].decided, rest.event = row[p].event,
           from # "approved" => rest.lease = row[p].lease,
           UNCHANGED <<token, call, told, clock>>
    PROVE  HitlInv' /\ Evolves /\ row'[p] = [rest EXCEPT !.state = to]
<1>1. HitlInv /\ row \in [Proposals -> Row] /\ clock \in 0..MaxClock
  BY Zenon DEF RecoveryInv, HitlInv, TypeOK
<1>2. Evolves /\ row' \in [Proposals -> Row] /\ row'[p] = [rest EXCEPT !.state = to]
  BY <1>1, TransitionEvolves
<1> QED
  BY <1>1, <1>2, TableStep, Zenon

\* A step that leaves the tables alone keeps their invariant.
LEMMA OwnRead ==
    ASSUME RecoveryInv, UNCHANGED <<row, token, call, told, clock>>
    PROVE  HitlInv' /\ Evolves
<1>1. HitlInv /\ row \in [Proposals -> Row] /\ clock \in 0..MaxClock
  BY Zenon DEF RecoveryInv, HitlInv, TypeOK
<1> QED
  BY <1>1, SameRows, TableStep, Zenon

\* An executor that ends or dies relies on nothing.
LEMMA RestingExec ==
    ASSUME NEW k \in Exec
    PROVE  AtRestExec(k) \in Exec /\ AtRestExec(k).pc = "idle"
BY Zenon DEF Exec, AtRestExec

\* The read of a reservation, and a drill, start an executor.
LEMMA StartSafe ==
    ASSUME RecoveryInv, NEW x \in Executors, NEW p \in Proposals, NEW y \in Payloads,
           ReserveGet(x, p, y) \/ DrillStart(x, p, y)
    PROVE  RecoveryInv'
<1>1. /\ exec \in [Executors -> Exec] /\ exec[x] \in Exec /\ clock \in 0..MaxClock
      /\ lost \subseteq Proposals /\ execFaults \in 0..MaxExecFaults
  BY Zenon DEF RecoveryInv, RecoveryTypeOK, HitlInv, TypeOK
<1>2. UNCHANGED <<row, token, call, told, clock, effects, lost, execFaults>>
  BY Zenon DEF ReserveGet, DrillStart
<1>3. HitlInv' /\ Evolves
  BY <1>2, OwnRead, Zenon
<1>4. ASSUME NEW s \in {"reserve", "dispatch"}
      PROVE  LET k == [exec[x] EXCEPT !.pc = s, !.id = p, !.payload = y, !.now = clock]
             IN  k \in Exec /\ k.pc = s /\ k.id = p /\ k.payload = y /\ k.now = clock
  BY <1>1, Zenon DEF Exec
<1>5. CASE ReserveGet(x, p, y)
  <2> DEFINE k == [exec[x] EXCEPT !.pc = "reserve", !.id = p, !.payload = y, !.now = clock]
  <2>1. k \in Exec /\ k.pc = "reserve" /\ k.id = p /\ k.payload = y /\ k.now = clock
    BY <1>4, Zenon
  <2>2. exec' = [exec EXCEPT ![x] = k]
    BY <1>5, Zenon DEF ReserveGet
  <2> HIDE DEF k
  <2>3. ExecAgrees(row', effects, x, k)
    <3>1. Gated(x) /\ row[p].state = "approved" /\ row[p].expires > clock /\ row[p].payload = y
      BY <1>5, Zenon DEF ReserveGet, Reservable
    <3>2. row[p].expires \in Int /\ clock \in Int
      BY <1>1 DEF RecoveryInv, HitlInv, TypeOK, Row
    <3> QED
      BY <1>2, <2>1, <3>1, <3>2, Zenon DEF ExecAgrees, Authorised
  <2> QED
    BY <1>1, <1>2, <1>3, <2>1, <2>2, <2>3, ExecutorStepSafe, Zenon
<1>6. CASE DrillStart(x, p, y)
  <2> DEFINE k == [exec[x] EXCEPT !.pc = "dispatch", !.id = p, !.payload = y, !.now = clock]
  <2>1. k \in Exec /\ k.pc = "dispatch"
    BY <1>4, Zenon
  <2>2. exec' = [exec EXCEPT ![x] = k] /\ ~Gated(x)
    BY <1>6, Zenon DEF DrillStart
  <2> HIDE DEF k
  <2>3. ExecAgrees(row', effects, x, k)
    BY <2>1, <2>2, Zenon DEF ExecAgrees
  <2> QED
    BY <1>1, <1>2, <1>3, <2>1, <2>2, <2>3, ExecutorStepSafe, Zenon
<1> QED
  BY <1>5, <1>6, Zenon

\* The update of a reservation succeeds only on an approved row, which nobody
\* has reserved before.
LEMMA ReserveUpdateSafe ==
    ASSUME RecoveryInv, NEW x \in Executors, ReserveUpdate(x)
    PROVE  RecoveryInv'
<1> DEFINE k == exec[x]
           r == row[k.id]
<1>1. /\ exec \in [Executors -> Exec] /\ k \in Exec
      /\ lost \subseteq Proposals /\ execFaults \in 0..MaxExecFaults
      /\ ExecAgrees(row, effects, x, k) /\ k.pc = "reserve"
  BY Zenon DEF RecoveryInv, RecoveryTypeOK, ReserveUpdate
<1>2. k.id \in Proposals /\ k.now \in 0..MaxClock /\ r \in Row /\ RowAgrees(r)
  BY <1>1, Zenon DEF Exec, RecoveryInv, HitlInv, TypeOK
<1>3. UNCHANGED <<token, call, told, clock, effects, lost, execFaults>>
  BY Zenon DEF ReserveUpdate
<1>4. CASE exec' = [exec EXCEPT ![x] = AtRestExec(k)] /\ UNCHANGED row
  <2>1. AtRestExec(k) \in Exec /\ AtRestExec(k).pc = "idle"
    BY <1>1, RestingExec, Zenon
  <2>2. ExecAgrees(row', effects, x, AtRestExec(k))
    BY <2>1, Zenon DEF ExecAgrees
  <2> QED
    BY <1>1, <1>3, <1>4, <2>1, <2>2, OwnRead, ExecutorStepSafe, Zenon
<1>5. CASE /\ Transition(k.id, "approved", "executing", ReservedRow(k.id, k.now))
           /\ exec' = [exec EXCEPT ![x].pc = "dispatch"]
  <2> DEFINE rest == ReservedRow(k.id, k.now)
             new == [rest EXCEPT !.state = "executing"]
             k2 == [k EXCEPT !.pc = "dispatch"]
  <2>1. k.now + Lease \in Int /\ k.now + Lease # NoTime
    BY <1>2, HitlAssumption, RecoveryAssumption DEF NoTime
  <2>2. /\ rest \in Row /\ rest.payload = r.payload /\ rest.expires = r.expires
        /\ rest.decided = r.decided /\ rest.event = r.event /\ rest.lease = k.now + Lease
    BY <1>2, <2>1, Zenon DEF Row, ReservedRow
  <2>3. /\ new.state = "executing" /\ new.payload = r.payload /\ new.expires = r.expires
        /\ new.decided = r.decided /\ new.lease = k.now + Lease
    BY <2>2, Zenon DEF Row
  <2>4. k2 \in Exec /\ k2.pc = "dispatch" /\ k2.id = k.id /\ k2.payload = k.payload /\ k2.now = k.now
    BY <1>1, Zenon DEF Exec
  <2>5. exec' = [exec EXCEPT ![x] = k2]
    BY <1>1, <1>5, Zenon
  <2>6. r.state = "approved" /\ r.decided = "approved"
    BY <1>2, <1>5, Zenon DEF Transition, RowAgrees, Decision
  <2>7. "executing" \in States \ Decision
    BY Zenon DEF States, Decision
  <2> HIDE DEF rest, k2
  <2>8. HitlInv' /\ Evolves /\ row'[k.id] = new
    BY <1>2, <1>3, <1>5, <2>2, <2>7, OwnUpdate DEF rest
  <2> HIDE DEF new
  <2>9. ExecAgrees(row', effects, x, k2)
    BY <1>1, <2>1, <2>3, <2>4, <2>6, <2>8, ZenonT(30) DEF ExecAgrees, Spent, Past, Authorised
  <2>10. \A i \in DOMAIN effects : effects[i].id # k.id
    BY <2>6, Zenon DEF RecoveryInv, EffectAgrees, Spent, Past
  <2>11. \A z \in Executors : (Gated(z) /\ exec[z].pc = "dispatch") => exec[z].id # k.id
    BY <2>6, Zenon DEF RecoveryInv, ExecAgrees, Spent, Past
  <2> QED
    BY <1>1, <1>3, <2>4, <2>5, <2>8, <2>9, <2>10, <2>11, ExecutorStepSafe, Zenon
<1> QED
  BY <1>4, <1>5, Zenon DEF ReserveUpdate

\* A reservation whose UPDATE errs leaves the row as it was, or reserved by
\* nobody.
LEMMA ReserveErrsSafe ==
    ASSUME RecoveryInv, NEW x \in Executors, ReserveErrs(x)
    PROVE  RecoveryInv'
<1> DEFINE k == exec[x]
           k2 == AtRestExec(k)
<1>1. k \in Exec /\ lost \subseteq Proposals /\ execFaults \in 0..MaxExecFaults
  BY Zenon DEF RecoveryInv, RecoveryTypeOK
<1>2. k.id \in Proposals /\ k.now \in 0..MaxClock /\ row[k.id] \in Row
  BY <1>1, Zenon DEF Exec, RecoveryInv, HitlInv, TypeOK
<1>3. exec' = [exec EXCEPT ![x] = k2] /\ UNCHANGED <<token, call, told, clock, effects>>
  BY Zenon DEF ReserveErrs
<1>4. k2 \in Exec /\ k2.pc = "idle"
  BY <1>1, RestingExec, Zenon
<1>5. lost' \subseteq Proposals /\ execFaults' \in 0..MaxExecFaults
  BY <1>1, <1>2, RecoveryAssumption DEF ReserveErrs, ExecFault
<1>6. HitlInv' /\ Evolves
  <2>1. CASE UNCHANGED row
    BY <1>3, <2>1, OwnRead, Zenon
  <2>2. CASE Transition(k.id, "approved", "executing", ReservedRow(k.id, k.now))
    <3>1. k.now + Lease \in Int
      BY <1>2, HitlAssumption, RecoveryAssumption
    <3>2. /\ ReservedRow(k.id, k.now) \in Row
          /\ ReservedRow(k.id, k.now).payload = row[k.id].payload
          /\ ReservedRow(k.id, k.now).expires = row[k.id].expires
          /\ ReservedRow(k.id, k.now).decided = row[k.id].decided
          /\ ReservedRow(k.id, k.now).event = row[k.id].event
      BY <1>2, <3>1, Zenon DEF ReservedRow, Row
    <3>3. "executing" \in States \ Decision
      BY Zenon DEF States, Decision
    <3> QED
      BY <1>2, <1>3, <2>2, <3>2, <3>3, OwnUpdate, Zenon
  <2> QED
    BY <2>1, <2>2, Zenon DEF ReserveErrs
<1> HIDE DEF k2
<1>7. ExecAgrees(row', effects, x, k2)
  BY <1>4, Zenon DEF ExecAgrees
<1> QED
  BY <1>3, <1>4, <1>5, <1>6, <1>7, ExecutorStepSafe, Zenon

\* The end of a run, a failed completion and the death of an executor release
\* nothing.
LEMMA EndSafe ==
    ASSUME RecoveryInv, NEW x \in Executors,
           CompletionMissing(x) \/ CompletionErrs(x) \/ ExecutorCrash(x)
    PROVE  RecoveryInv'
<1> DEFINE k == AtRestExec(exec[x])
<1>1. exec[x] \in Exec /\ lost \subseteq Proposals /\ execFaults \in 0..MaxExecFaults
  BY Zenon DEF RecoveryInv, RecoveryTypeOK
<1>2. k \in Exec /\ k.pc = "idle"
  BY <1>1, RestingExec, Zenon
<1>3. exec' = [exec EXCEPT ![x] = k] /\ effects' = effects /\ UNCHANGED <<row, token, call, told, clock>>
  BY Zenon DEF CompletionMissing, CompletionErrs, ExecutorCrash
<1>4. lost' \subseteq Proposals /\ execFaults' \in 0..MaxExecFaults
  <2>1. exec[x].id \in Proposals
    BY <1>1, Zenon DEF Exec
  <2> QED
    BY <1>1, <2>1, RecoveryAssumption DEF CompletionMissing, CompletionErrs, ExecutorCrash, ExecFault
<1> HIDE DEF k
<1>5. ExecAgrees(row', effects, x, k)
  BY <1>2, Zenon DEF ExecAgrees
<1> QED
  BY <1>2, <1>3, <1>4, <1>5, OwnRead, ExecutorStepSafe, Zenon

\* A completion is read from the row as it is, and within the lease if it is
\* to be a success.
LEMMA CompletionGetSafe ==
    ASSUME RecoveryInv, NEW x \in Executors, CompletionGet(x)
    PROVE  RecoveryInv'
<1> DEFINE k == exec[x]
           k2 == [k EXCEPT !.pc = "update", !.now = clock, !.to = Outcome(k.id, k.ok)]
<1>1. /\ k \in Exec /\ lost \subseteq Proposals /\ execFaults \in 0..MaxExecFaults
      /\ clock \in 0..MaxClock /\ ExecAgrees(row, effects, x, k) /\ k.pc = "complete"
  BY Zenon DEF RecoveryInv, RecoveryTypeOK, HitlInv, TypeOK, CompletionGet
<1>2. Outcome(k.id, k.ok) \in {"executed", "failed"}
  BY Zenon DEF Outcome
<1>3. /\ k2 \in Exec /\ k2.pc = "update" /\ k2.id = k.id /\ k2.ok = k.ok /\ k2.now = clock
      /\ k2.to = Outcome(k.id, k.ok)
  BY <1>1, <1>2, Zenon DEF Exec
<1>4. /\ exec' = [exec EXCEPT ![x] = k2]
      /\ UNCHANGED <<row, token, call, told, clock, effects, lost, execFaults>>
  BY Zenon DEF CompletionGet
<1>5. k.id \in Proposals /\ row[k.id].lease \in Int
  BY <1>1, Zenon DEF Exec, RecoveryInv, HitlInv, TypeOK, Row
<1>6. Spent(row[k.id]) /\ k2.to = "executed" => k.ok /\ k2.now < row[k.id].lease
  BY <1>1, <1>3, <1>5, HitlAssumption DEF Outcome, executionLeaseExpired, Spent
<1> HIDE DEF k2
<1>7. ExecAgrees(row', effects, x, k2)
  BY <1>1, <1>3, <1>4, <1>6, Zenon DEF ExecAgrees, Ran
<1> QED
  BY <1>1, <1>3, <1>4, <1>7, OwnRead, ExecutorStepSafe, Zenon

\* The update of a completion takes the row from executing to its outcome.
LEMMA CompletionUpdateSafe ==
    ASSUME RecoveryInv, NEW x \in Executors, CompletionUpdate(x)
    PROVE  RecoveryInv'
<1> DEFINE k == exec[x]
<1>1. k \in Exec /\ lost \subseteq Proposals /\ execFaults \in 0..MaxExecFaults
  BY Zenon DEF RecoveryInv, RecoveryTypeOK
<1>2. k.id \in Proposals /\ row[k.id] \in Row /\ k.to \in States \ Decision
  BY <1>1, Zenon DEF Exec, RecoveryInv, HitlInv, TypeOK, States, Decision
<1>3. /\ exec' = [exec EXCEPT ![x] = AtRestExec(k)]
      /\ UNCHANGED <<token, call, told, clock, effects, lost, execFaults>>
  BY Zenon DEF CompletionUpdate
<1>4. AtRestExec(k) \in Exec /\ AtRestExec(k).pc = "idle"
  BY <1>1, RestingExec, Zenon
<1>5. ExecAgrees(row', effects, x, AtRestExec(k))
  BY <1>4 DEF ExecAgrees
<1>6. HitlInv' /\ Evolves
  <2>1. CASE UNCHANGED row
    BY <1>3, <2>1, OwnRead, Zenon
  <2>2. CASE Transition(k.id, "executing", k.to, row[k.id])
    BY <1>2, <1>3, <2>2, OwnUpdate, Zenon
  <2> QED
    BY <2>1, <2>2, Zenon DEF CompletionUpdate
<1> QED
  BY <1>1, <1>3, <1>4, <1>5, <1>6, ExecutorStepSafe, Zenon

\* The sweep of expired leases fails a row, and lets nobody reserve it again.
LEMMA RecoverExpiredSafe ==
    ASSUME RecoveryInv, NEW p \in Proposals, RecoverExpired(p)
    PROVE  RecoveryInv'
<1>1. row[p] \in Row /\ "failed" \in States \ Decision
  BY Zenon DEF RecoveryInv, HitlInv, TypeOK, States, Decision
<1>2. HitlInv' /\ Evolves
  BY <1>1, OwnUpdate, Zenon DEF RecoverExpired
<1> QED
  BY <1>2, RowsStep, Zenon DEF RecoverExpired

\* What an executor relies on survives a longer record of effects.
LEMMA ExecAgreesMore ==
    ASSUME NEW rows, NEW fx, NEW fx2, NEW z, NEW k,
           ExecAgrees(rows, fx, z, k), Ran(fx, z, k) => Ran(fx2, z, k)
    PROVE  ExecAgrees(rows, fx2, z, k)
PROOF BY Zenon DEF ExecAgrees

\* A dispatch is the first of its proposal, with the authority of its
\* reservation.
LEMMA DispatchSafe ==
    ASSUME RecoveryInv, NEW x \in Executors, NEW ok \in BOOLEAN, Dispatch(x, ok)
    PROVE  RecoveryInv'
<1> DEFINE k == exec[x]
           k2 == [k EXCEPT !.pc = "complete", !.ok = ok]
           e == [id |-> k.id, by |-> x, payload |-> k.payload, now |-> k.now, ok |-> ok]
<1>1. /\ k \in Exec /\ lost \subseteq Proposals /\ execFaults \in 0..MaxExecFaults
      /\ ExecAgrees(row, effects, x, k) /\ k.pc = "dispatch"
      /\ exec \in [Executors -> Exec] /\ effects \in Seq(Effect)
  BY Zenon DEF RecoveryInv, RecoveryTypeOK, Dispatch
<1>2. k2 \in Exec /\ k2.pc = "complete" /\ k2.id = k.id /\ k2.ok = ok
  BY <1>1, Zenon DEF Exec
<1>3. exec' = [exec EXCEPT ![x] = k2] /\ UNCHANGED <<row, token, call, told, clock, lost, execFaults>>
  BY Zenon DEF Dispatch
<1>4. HitlInv' /\ Evolves
  BY <1>3, OwnRead, Zenon
<1>5. CASE ~Gated(x)
  <2>1. effects' = effects
    BY <1>5, Zenon DEF Dispatch
  <2> HIDE DEF k2
  <2>2. ExecAgrees(row', effects, x, k2)
    BY <1>2, <1>5, Zenon DEF ExecAgrees
  <2> QED
    BY <1>1, <1>2, <1>3, <1>4, <1>5, <2>1, <2>2, ExecutorStepSafe, Zenon
<1>6. CASE Gated(x)
  <2>1. effects' = Append(effects, e)
    BY <1>6, Zenon DEF Dispatch
  <2>2. e \in Effect /\ e.id = k.id /\ e.by = x /\ e.payload = k.payload /\ e.now = k.now /\ e.ok = ok
    BY <1>1, Zenon DEF Exec, Effect
  <2> HIDE DEF e, k2
  <2> DEFINE n == Len(effects)
  <2>3. /\ effects' \in Seq(Effect) /\ n \in Nat /\ DOMAIN effects = 1..n
        /\ DOMAIN effects' = 1..(n + 1) /\ effects'[n + 1] = e
        /\ \A i \in 1..n : effects'[i] = effects[i]
    BY <1>1, <2>1, <2>2
  <2> HIDE DEF n
  <2>4. exec' \in [Executors -> Exec] /\ exec'[x] = k2
        /\ \A z \in Executors : z # x => exec'[z] = exec[z]
    BY <1>1, <1>2, <1>3, Zenon
  <2>5. OneReservation /\ OneMutation
    BY Zenon DEF RecoveryInv
  <2>6. \A i \in 1..n : effects[i].id # k.id
    BY <1>1, <1>6, <2>3, <2>5, Zenon DEF OneReservation
  <2>7. RecoveryTypeOK'
    BY <1>1, <1>3, <2>3, <2>4, Zenon DEF RecoveryTypeOK
  <2>8. OneMutation'
    <3> SUFFICES ASSUME NEW i \in 1..(n + 1), NEW j \in 1..(n + 1), effects'[i].id = effects'[j].id
                 PROVE  i = j
      BY <2>3, Zenon DEF OneMutation
    <3>1. i \in 1..n \/ i = n + 1
      BY <2>3
    <3>2. j \in 1..n \/ j = n + 1
      BY <2>3
    <3> QED
      BY <2>2, <2>3, <2>5, <2>6, <3>1, <3>2 DEF OneMutation
  <2>9. OneReservation'
    <3> SUFFICES ASSUME NEW z \in Executors, Gated(z), exec'[z].pc = "dispatch"
                 PROVE  /\ \A i \in 1..(n + 1) : effects'[i].id # exec'[z].id
                        /\ \A w \in Executors :
                             (Gated(w) /\ exec'[w].pc = "dispatch" /\ exec'[w].id = exec'[z].id)
                                => w = z
      BY <2>3, Zenon DEF OneReservation, Gated
    <3>1. z # x /\ exec'[z] = exec[z]
      BY <1>2, <2>4, Zenon
    <3>2. exec[z].id # k.id
      BY <1>1, <1>6, <2>5, <3>1, Zenon DEF OneReservation
    <3>3. ASSUME NEW i \in 1..(n + 1) PROVE effects'[i].id # exec'[z].id
      <4>1. i \in 1..n \/ i = n + 1
        BY <2>3
      <4> QED
        BY <2>2, <2>3, <2>5, <3>1, <3>2, <4>1, SMTT(30) DEF OneReservation
    <3>4. ASSUME NEW w \in Executors, Gated(w), exec'[w].pc = "dispatch", exec'[w].id = exec'[z].id
          PROVE  w = z
      <4>1. exec'[w] = exec[w]
        BY <1>2, <2>4, <3>4, Zenon
      <4> QED
        BY <2>5, <3>1, <3>4, <4>1, Zenon DEF OneReservation
    <3> QED
      BY <3>3, <3>4, Zenon
  <2>10. ASSUME NEW i \in 1..(n + 1) PROVE EffectAgrees(row', effects'[i])
    <3>1. CASE i = n + 1
      BY <1>1, <1>3, <1>6, <2>2, <2>3, <3>1, ZenonT(30) DEF EffectAgrees, ExecAgrees
    <3>2. CASE i \in 1..n
      BY <1>3, <2>3, <3>2, Zenon DEF RecoveryInv
    <3> QED
      BY <2>3, <3>1, <3>2
  <2>11. ASSUME NEW z \in Executors PROVE ExecAgrees(row', effects', z, exec'[z])
    <3>1. CASE z = x
      <4>1. n + 1 \in DOMAIN effects'
        BY <2>3
      <4>2. Ran(effects', x, k2)
        BY <1>2, <2>2, <2>3, <4>1, Zenon DEF Ran
      <4> QED
        BY <1>1, <1>2, <1>3, <1>6, <2>4, <3>1, <4>2, Zenon DEF ExecAgrees
    <3>2. CASE z # x
      <4>1. ExecAgrees(row, effects, z, exec[z]) /\ exec'[z] = exec[z]
        BY <2>4, <3>2, Zenon DEF RecoveryInv
      <4>2. Ran(effects, z, exec[z]) => Ran(effects', z, exec[z])
        BY <2>3 DEF Ran
      <4>3. ExecAgrees(row, effects', z, exec[z])
        BY <4>1, <4>2, ExecAgreesMore, Zenon
      <4> QED
        BY <1>3, <4>1, <4>3, Zenon
    <3> QED
      BY <3>1, <3>2, Zenon
  <2> QED
    BY <1>4, <2>3, <2>7, <2>8, <2>9, <2>10, <2>11, Zenon DEF RecoveryInv
<1> QED
  BY <1>5, <1>6, Zenon

-----------------------------------------------------------------------------
(* The theorems *)

\* Nothing is reserved or dispatched in the initial state.
LEMMA RecoveryInvInit == RecoveryInit => RecoveryInv
<1> SUFFICES ASSUME RecoveryInit PROVE RecoveryInv
  OBVIOUS
<1>1. HitlInv
  BY HitlInvInit, Zenon DEF RecoveryInit
<1>2. (CHOOSE y \in Payloads : TRUE) \in Payloads /\ (CHOOSE p \in Proposals : TRUE) \in Proposals
  BY HitlAssumption
<1>3. exec \in [Executors -> Exec] /\ \A x \in Executors : exec[x].pc = "idle"
  <2> DEFINE k == [pc |-> "idle", id |-> CHOOSE p \in Proposals : TRUE,
                   payload |-> CHOOSE y \in Payloads : TRUE, now |-> 0, ok |-> FALSE,
                   to |-> "failed"]
  <2>1. 0 \in 0..MaxClock
    BY HitlAssumption
  <2>2. k \in Exec /\ k.pc = "idle"
    BY <1>2, <2>1, Zenon DEF Exec
  <2>3. exec \in [Executors -> {k}]
    BY Zenon DEF RecoveryInit
  <2> HIDE DEF k
  <2> QED
    BY <2>2, <2>3, Zenon
<1>4. effects \in Seq(Effect) /\ DOMAIN effects = {}
  BY DEF RecoveryInit
<1>5. RecoveryTypeOK
  BY <1>3, <1>4, RecoveryAssumption DEF RecoveryInit, RecoveryTypeOK
<1> QED
  BY <1>1, <1>3, <1>4, <1>5, Zenon DEF RecoveryInv, ExecAgrees, OneMutation, OneReservation

\* Every step of executors, callers and the sweep preserves the invariant.
LEMMA RecoveryInvStep == RecoveryInv /\ [RecoveryNext]_recoveryVars => RecoveryInv'
<1> SUFFICES ASSUME RecoveryInv, [RecoveryNext]_recoveryVars PROVE RecoveryInv'
  BY Zenon
<1>1. CASE (Next \/ UNCHANGED hitlVars) /\ UNCHANGED <<exec, effects, lost, execFaults>>
  <2>1. HitlInv' /\ Evolves
    BY <1>1, HitlStep, Zenon DEF RecoveryInv
  <2> QED
    BY <1>1, <2>1, RowsStep, Zenon
<1>2. ASSUME NEW x \in Executors, ExecutorStep(x) PROVE RecoveryInv'
  <2>1. ASSUME NEW p \in Proposals, NEW y \in Payloads, ReserveGet(x, p, y) \/ DrillStart(x, p, y)
        PROVE  RecoveryInv'
    BY <2>1, StartSafe, Zenon
  <2>2. ASSUME NEW ok \in BOOLEAN, Dispatch(x, ok) PROVE RecoveryInv'
    BY <2>2, DispatchSafe, Zenon
  <2> QED
    BY <1>2, <2>1, <2>2, ReserveUpdateSafe, ReserveErrsSafe, EndSafe, CompletionGetSafe,
       CompletionUpdateSafe, Zenon
    DEF ExecutorStep, ExecutorProceeds
<1>3. ASSUME NEW p \in Proposals, RecoverExpired(p) PROVE RecoveryInv'
  BY <1>3, RecoverExpiredSafe, Zenon
<1> QED
  BY <1>1, <1>2, <1>3, Zenon DEF RecoveryNext, recoveryVars, hitlVars

\* The invariant holds of every reachable state.
THEOREM RecoverySafe == RecoverySpec => []RecoveryInv
BY RecoveryInvInit, RecoveryInvStep, PTL DEF RecoverySpec

\* Executors' states and the history of mutations keep their types.
THEOREM RecoveryTypeCorrect == RecoverySpec => []RecoveryTypeOK
<1>1. RecoveryInv => RecoveryTypeOK
  BY Zenon DEF RecoveryInv
<1> QED
  BY <1>1, RecoverySafe, PTL

\* However many executors race, crash and are retried, with or without drills
\* and the sweep, an approval is good for one gated mutation.
THEOREM OneMutationPerApproval == RecoverySpec => []OneMutation
<1>1. RecoveryInv => OneMutation
  BY Zenon DEF RecoveryInv
<1> QED
  BY <1>1, RecoverySafe, PTL

\* A reservation excludes every other, before and after.
THEOREM ReservationExclusive == RecoverySpec => []OneReservation
<1>1. RecoveryInv => OneReservation
  BY Zenon DEF RecoveryInv
<1> QED
  BY <1>1, RecoverySafe, PTL

\* A gated mutation has an approval with its payload, read before it expired.
THEOREM MutationsAuthorised == RecoverySpec => []MutationAuthorised
<1>1. RecoveryInv => MutationAuthorised
  BY Zenon DEF RecoveryInv, MutationAuthorised, EffectAgrees, Spent, Authorised
<1> QED
  BY <1>1, RecoverySafe, PTL

\* An update that changes the state of a row is of that row, between the
\* states it names.
LEMMA TransitionOf ==
    ASSUME row \in [Proposals -> Row], NEW p \in Proposals, NEW q \in Proposals,
           NEW from, NEW to, NEW rest \in Row, Transition(q, from, to, rest),
           row'[p].state # row[p].state
    PROVE  q = p /\ row[p].state = from /\ row'[p].state = to
<1>1. [rest EXCEPT !.state = to].state = to
  BY Zenon DEF Row
<1>2. row' = [row EXCEPT ![q] = [rest EXCEPT !.state = to]] /\ row[q].state = from
  BY Zenon DEF Transition
<1> QED
  BY <1>1, <1>2, Zenon

\* No statement of the service takes a row from executing to executed.
LEMMA ServiceLeavesExecuting ==
    ASSUME HitlInv, Next, NEW p \in Proposals,
           row[p].state = "executing", row'[p].state = "executed"
    PROVE  FALSE
<1>1. row \in [Proposals -> Row] /\ call \in [Callers -> Call]
  BY Zenon DEF HitlInv, TypeOK
<1>2. row' # row /\ row'[p].state # row[p].state
  BY Zenon
<1>3. ASSUME NEW q \in Proposals, NEW y \in Payloads, NEW exp \in 0..MaxClock,
             CreateAgentTeams(q, y, exp)
      PROVE  FALSE
  <2>1. row[q].state = "absent" /\ (p # q => row'[p] = row[p])
    BY <1>1, <1>3, Zenon DEF CreateAgentTeams
  <2> QED
    BY <1>2, <2>1, Zenon
<1>4. ASSUME NEW q \in Proposals, NEW d \in Decision, Decide(q, d) PROVE FALSE
  <2>1. [row[q] EXCEPT !.decided = d] \in Row
    BY <1>1 DEF Row
  <2> QED
    BY <1>1, <1>2, <1>4, <2>1, TransitionOf, Zenon DEF Decide
<1>5. ASSUME NEW c \in Callers, ServiceStep(c) PROVE FALSE
  <2> DEFINE k == call[c]
  <2>1. k \in Call /\ CallAgrees(row, k) /\ k.id \in Proposals /\ row[k.id] \in Row
    BY <1>1, Zenon DEF HitlInv, Call
  <2>2. CASE DecideUpdate(c)
    <3>1. k.to \in Decision /\ k.event \in Events
      BY <2>1, <2>2, Zenon DEF CallAgrees, DecideUpdate
    <3>2. DecidedRow(k.id, k.to, k.event) \in Row
      BY <1>1, <2>1, <3>1, DecidedRowFacts, Zenon
    <3>3. Transition(k.id, "pending", k.to, DecidedRow(k.id, k.to, k.event))
      BY <1>2, <2>2, Zenon DEF DecideUpdate
    <3> HIDE DEF k
    <3> QED
      BY <1>1, <1>2, <2>1, <3>2, <3>3, TransitionOf
  <2>3. CASE PauseUpdate(c)
    <3>1. row[k.id].version < MaxPauses /\ Transition(k.id, k.from, "paused", PausedRow(row[k.id]))
      BY <1>2, <2>3, Zenon DEF PauseUpdate
    <3>2. row[k.id].version + 1 \in 0..MaxPauses
      BY <2>1, <3>1, HitlAssumption DEF Row
    <3>3. PausedRow(row[k.id]) \in Row
      BY <2>1, <3>2, Zenon DEF PausedRow, Row
    <3> HIDE DEF k
    <3> QED
      BY <1>1, <1>2, <2>1, <3>1, <3>3, TransitionOf
  <2>4. CASE ResumeUpdate(c)
    <3>1. Transition(k.id, "paused", "resumed", row[k.id])
      BY <1>2, <2>4, Zenon DEF ResumeUpdate
    <3> HIDE DEF k
    <3> QED
      BY <1>1, <1>2, <2>1, <3>1, TransitionOf
  <2>5. CASE CompleteUpdate(c)
    <3>1. Transition(k.id, k.from, k.to, row[k.id]) /\ k.from \in {"approved", "resumed", "executed"}
      BY <1>2, <2>1, <2>5, Zenon DEF CompleteUpdate, CallAgrees
    <3> HIDE DEF k
    <3> QED
      BY <1>1, <1>2, <2>1, <3>1, TransitionOf
  <2> QED
    BY <1>2, <1>5, <2>2, <2>3, <2>4, <2>5, ZenonT(30)
    DEF ServiceStep, DecideGet, DecideRecheck, PauseGet, ResumeGet, PauseUpsert, DeleteToken,
        CompleteGet
<1> QED
  BY <1>2, <1>3, <1>4, <1>5, Zenon DEF Next, Tick

\* A row leaves executing for executed only in a completion of its own.
LEMMA ExecutedStep ==
    ASSUME RecoveryInv, RecoveryNext, NEW p \in Proposals,
           row[p].state = "executing", row'[p].state = "executed"
    PROVE  \E x \in Executors : exec[x].pc = "update" /\ exec[x].id = p /\ exec[x].to = "executed"
<1>1. row \in [Proposals -> Row] /\ exec \in [Executors -> Exec] /\ HitlInv
  BY Zenon DEF RecoveryInv, HitlInv, TypeOK, RecoveryTypeOK
<1>2. row' # row /\ row'[p].state # row[p].state
  OBVIOUS
<1>3. ASSUME NEW q \in Proposals, RecoverExpired(q) PROVE FALSE
  BY <1>1, <1>2, <1>3, TransitionOf DEF RecoverExpired
<1>4. ASSUME NEW x \in Executors, ExecutorStep(x)
      PROVE  exec[x].pc = "update" /\ exec[x].id = p /\ exec[x].to = "executed"
  <2> DEFINE k == exec[x]
  <2>1. k \in Exec /\ k.id \in Proposals /\ k.now \in 0..MaxClock /\ row[k.id] \in Row
    BY <1>1, Zenon DEF Exec
  <2>2. CASE ReserveUpdate(x) \/ ReserveErrs(x)
    <3>1. Transition(k.id, "approved", "executing", ReservedRow(k.id, k.now))
      BY <1>2, <2>2, Zenon DEF ReserveUpdate, ReserveErrs
    <3>2. k.now + Lease \in Int
      BY <2>1, HitlAssumption, RecoveryAssumption
    <3>3. ReservedRow(k.id, k.now) \in Row
      BY <2>1, <3>2, Zenon DEF ReservedRow, Row
    <3> HIDE DEF k
    <3> QED
      BY <1>1, <1>2, <2>1, <3>1, <3>3, TransitionOf, Zenon
  <2>3. CASE CompletionUpdate(x)
    <3>1. k.pc = "update" /\ Transition(k.id, "executing", k.to, row[k.id])
      BY <1>2, <2>3, Zenon DEF CompletionUpdate
    <3> HIDE DEF k
    <3>2. k.id = p /\ row'[p].state = k.to
      BY <1>1, <1>2, <2>1, <3>1, TransitionOf
    <3> QED
      BY <3>1, <3>2, Zenon DEF k
  <2> QED
    BY <1>2, <1>4, <2>2, <2>3, ZenonT(30)
    DEF ExecutorStep, ExecutorProceeds, ReserveGet, DrillStart, CompletionGet, CompletionMissing,
        Dispatch, CompletionErrs, ExecutorCrash
<1> QED
  BY <1>1, <1>2, <1>3, <1>4, ServiceLeavesExecuting, Zenon DEF RecoveryNext

\* A reserved proposal becomes executed only by the executor whose own
\* dispatch succeeded, within the lease, or by a drill.
THEOREM CompletedByHolder == RecoverySpec => ExecutedByItsHolder
<1>1. ASSUME RecoveryInv, [RecoveryNext]_recoveryVars, NEW p \in Proposals,
             row[p].state = "executing", row'[p].state = "executed"
      PROVE  \E x \in Executors :
                /\ exec[x].pc = "update" /\ exec[x].id = p
                /\ Gated(x) => /\ exec[x].now < row[p].lease
                               /\ \E i \in DOMAIN effects :
                                    effects[i].id = p /\ effects[i].by = x /\ effects[i].ok
  <2>1. RecoveryNext
    BY <1>1, Zenon DEF recoveryVars
  <2>2. PICK x \in Executors : exec[x].pc = "update" /\ exec[x].id = p /\ exec[x].to = "executed"
    BY <1>1, <2>1, ExecutedStep, Zenon
  <2>3. Gated(x) => ExecAgrees(row, effects, x, exec[x])
    BY <1>1, Zenon DEF RecoveryInv
  <2> QED
    BY <2>2, <2>3, Zenon DEF ExecAgrees, Ran
<1>2. RecoveryInv /\ [RecoveryNext]_recoveryVars =>
        [\A p \in Proposals :
           (row[p].state = "executing" /\ row'[p].state = "executed") =>
              \E x \in Executors :
                /\ exec[x].pc = "update" /\ exec[x].id = p
                /\ Gated(x) => /\ exec[x].now < row[p].lease
                               /\ \E i \in DOMAIN effects :
                                    effects[i].id = p /\ effects[i].by = x /\ effects[i].ok]_recoveryVars
  BY <1>1, Zenon
<1> QED
  BY <1>2, RecoverySafe, PTL DEF RecoverySpec, ExecutedByItsHolder
=============================================================================
