---------------------------- MODULE HitlProposals ----------------------------
(***************************************************************************)
(* The human-in-the-loop proposals: the proposal and proposal_state tables *)
(* (data/hitl/store) and the operations of biz/hitl.Service on them.       *)
(*                                                                         *)
(* A service call is not a transaction: it reads the row, then runs one    *)
(* optimistic-locked UPDATE, and writes or deletes the resume token row in *)
(* statements of their own.  Each statement is one action; the calls of    *)
(* several callers interleave between them.                                *)
(*                                                                         *)
(* A proposal is named by its idempotency key.  The payload stands for its *)
(* canonical JSON (and so for its hash); a Matrix event with its reason is *)
(* one value of Events.  Actor ids, titles and result JSON are left out.   *)
(***************************************************************************)
EXTENDS Integers

CONSTANTS
    Proposals,      \* idempotency keys of proposals
    Payloads,       \* payloads a proposal can carry
    Events,         \* Matrix events (with reason) that carry a decision
    NoEvent,        \* the matrix_event_id of a row nobody decided over Matrix
    Callers,        \* concurrent callers of the service
    MaxClock,       \* bound on the wall clock
    MaxPauses       \* bound on the pauses of a proposal

States == {"pending", "approved", "rejected", "expired", "executed", "failed",
           "executing", "paused", "resumed", "rolled_back"}

ASSUME HitlAssumption ==
    /\ NoEvent \notin Events
    /\ MaxClock \in Nat
    /\ MaxPauses \in Nat
    /\ Payloads # {}
    /\ Proposals # {}

VARIABLES
    row,            \* the proposal table
    token,          \* the proposal_state table: the version in the resume token
    call,           \* the service call each caller is in
    told,           \* the decisions callers were told are in force
    clock

hitlVars == <<row, token, call, told, clock>>

-----------------------------------------------------------------------------
(* The state machine of model/hitl *)

ValidTransitions ==
    [s \in States |->
        CASE s = "pending"   -> {"approved", "rejected", "expired", "paused"}
          [] s = "approved"  -> {"executing", "executed", "failed", "paused", "rolled_back"}
          [] s = "paused"    -> {"resumed", "rejected", "expired"}
          [] s = "resumed"   -> {"executed", "failed", "paused", "rolled_back"}
          [] s = "executing" -> {"executed", "failed"}
          [] s = "executed"  -> {"rolled_back"}
          [] OTHER           -> {}]

IsValidTransition(from, to) == from \in States /\ to \in ValidTransitions[from]

Decision == {"approved", "rejected", "expired"}

NoToken == -1

NoTime == -1

Row == [state : States \cup {"absent"}, payload : Payloads, expires : 0..MaxClock,
        version : 0..MaxPauses, event : Events \cup {NoEvent},
        decided : Decision \cup {"none"},       \* history: how it left pending
        lease : Int]

Call == [pc : {"idle", "decide", "recheck", "upsert", "pause", "undo", "resume", "clean",
               "complete"},
         id : Proposals, payload : Payloads, from : States \cup {"absent"},
         to : States, event : Events \cup {NoEvent}, version : 0..(MaxPauses + 1)]

Idle(k) == [k EXCEPT !.pc = "idle"]

\* Variant: the UPDATE lacks its "AND state = ?" condition.
Transition_Blind(p, from, to, rest) ==
    /\ IsValidTransition(from, to)
    /\ row[p].state # "absent"
    /\ row' = [row EXCEPT ![p] = [rest EXCEPT !.state = to]]

\* Repo.Transition: legal by the table, and the row still is in the state
\* read before; rest is the row with the other columns of the update.
Transition(p, from, to, rest) ==
    /\ IsValidTransition(from, to)
    /\ row[p].state = from
    /\ row' = [row EXCEPT ![p] = [rest EXCEPT !.state = to]]

TransitionFails(p, from, to) == ~IsValidTransition(from, to) \/ row[p].state # from

-----------------------------------------------------------------------------
(* Creation and decisions *)

Init ==
    /\ row = [p \in Proposals |->
                [state |-> "absent", payload |-> CHOOSE y \in Payloads : TRUE, expires |-> 0,
                 version |-> 0, event |-> NoEvent, decided |-> "none", lease |-> NoTime]]
    /\ token = [p \in Proposals |-> NoToken]
    /\ call \in [Callers -> {[pc |-> "idle", id |-> CHOOSE p \in Proposals : TRUE,
                              payload |-> CHOOSE y \in Payloads : TRUE, from |-> "absent",
                              to |-> "approved", event |-> NoEvent, version |-> 0]}]
    /\ told = {}
    /\ clock = 0

\* CreateAgentTeams: the unique idempotency key lets one insert through; a
\* second one gets the row that is there if it carries the same payload.
CreateAgentTeams(p, y, exp) ==
    /\ row[p].state = "absent"
    /\ exp > clock
    /\ row' = [row EXCEPT ![p].state = "pending", ![p].payload = y, ![p].expires = exp]
    /\ UNCHANGED <<token, call, told, clock>>

\* What a caller is told when its decision d over event e is in force.
Answer(p, d, e, y) == [id |-> p, state |-> d, event |-> e, payload |-> y]

\* TransitionAgentTeams, up to the read: the payload is the approved one; a
\* repeated decision with the same event succeeds at once.
DecideGet(c, p, d, e, y) ==
    /\ call[c].pc = "idle"
    /\ row[p].state # "absent"
    /\ row[p].payload = y
    /\ row[p].state = "pending" \/ row[p].event = e
    /\ \/ /\ row[p].state = d
          /\ told' = told \cup {Answer(p, d, e, y)}
          /\ UNCHANGED call
       \/ /\ row[p].state = "pending"
          /\ call' = [call EXCEPT ![c] = [@ EXCEPT !.pc = "decide", !.id = p, !.payload = y,
                                                   !.from = "pending", !.to = d, !.event = e]]
          /\ UNCHANGED told
    /\ UNCHANGED <<row, token, clock>>

DecidedRow(p, d, e) == [row[p] EXCEPT !.event = e, !.decided = d]

\* TransitionAgentTeams, the UPDATE; a conflict is looked at again.
DecideUpdate(c) ==
    LET k == call[c] IN
    /\ k.pc = "decide"
    /\ \/ /\ Transition(k.id, "pending", k.to, DecidedRow(k.id, k.to, k.event))
          /\ told' = told \cup {Answer(k.id, k.to, k.event, k.payload)}
          /\ call' = [call EXCEPT ![c] = Idle(@)]
       \/ /\ TransitionFails(k.id, "pending", k.to)
          /\ call' = [call EXCEPT ![c].pc = "recheck"]
          /\ UNCHANGED <<row, told>>
    /\ UNCHANGED <<token, clock>>

\* Variant: after a conflict only the state is compared, not who decided.
SameDecision_StateOnly(k) == row[k.id].state = k.to

SameDecision(k) ==
    row[k.id].state = k.to /\ row[k.id].payload = k.payload /\ row[k.id].event = k.event

\* TransitionAgentTeams after a conflict: success if the very same decision
\* is in force.
DecideRecheck(c) ==
    LET k == call[c] IN
    /\ k.pc = "recheck"
    /\ told' = IF SameDecision(k) THEN told \cup {Answer(k.id, k.to, k.event, k.payload)} ELSE told
    /\ call' = [call EXCEPT ![c] = Idle(@)]
    /\ UNCHANGED <<row, token, clock>>

\* Approve, Reject and Expire: one UPDATE, no Matrix event.
Decide(p, d) ==
    /\ Transition(p, "pending", d, [row[p] EXCEPT !.decided = d])
    /\ UNCHANGED <<token, call, told, clock>>

-----------------------------------------------------------------------------
(* Pause, resume and complete *)

Pausable == {"pending", "approved", "resumed"}

PauseGet(c, p) ==
    /\ call[c].pc = "idle"
    /\ row[p].state \in Pausable
    /\ call' = [call EXCEPT ![c] = [@ EXCEPT !.pc = "upsert", !.id = p, !.from = row[p].state,
                                             !.version = row[p].version + 1]]
    /\ UNCHANGED <<row, token, told, clock>>

PauseUpsert(c) ==
    /\ call[c].pc = "upsert"
    /\ token' = [token EXCEPT ![call[c].id] = call[c].version]
    /\ call' = [call EXCEPT ![c].pc = "pause"]
    /\ UNCHANGED <<row, told, clock>>

PausedRow(r) == [r EXCEPT !.version = @ + 1]

PauseUpdate(c) ==
    LET k == call[c] IN
    /\ k.pc = "pause"
    /\ \/ /\ row[k.id].version < MaxPauses
          /\ Transition(k.id, k.from, "paused", PausedRow(row[k.id]))
          /\ call' = [call EXCEPT ![c] = Idle(@)]
       \/ /\ TransitionFails(k.id, k.from, "paused")
          /\ call' = [call EXCEPT ![c].pc = "undo"]
          /\ UNCHANGED row
    /\ UNCHANGED <<token, told, clock>>

\* Pause after a conflict, and the end of Resume: DeleteState.
DeleteToken(c) ==
    /\ call[c].pc \in {"undo", "clean"}
    /\ token' = [token EXCEPT ![call[c].id] = NoToken]
    /\ call' = [call EXCEPT ![c] = Idle(@)]
    /\ UNCHANGED <<row, told, clock>>

ResumeGet(c, p) ==
    /\ call[c].pc = "idle"
    /\ row[p].state = "paused"
    /\ call' = [call EXCEPT ![c] = [@ EXCEPT !.pc = "resume", !.id = p, !.from = "paused"]]
    /\ UNCHANGED <<row, token, told, clock>>

ResumeUpdate(c) ==
    LET k == call[c] IN
    /\ k.pc = "resume"
    /\ \/ /\ Transition(k.id, "paused", "resumed", row[k.id])
          /\ call' = [call EXCEPT ![c].pc = "clean"]
       \/ /\ TransitionFails(k.id, "paused", "resumed")
          /\ call' = [call EXCEPT ![c] = Idle(@)]
          /\ UNCHANGED row
    /\ UNCHANGED <<token, told, clock>>

CompleteGet(c, p, s) ==
    /\ call[c].pc = "idle"
    /\ row[p].state \in {"approved", "resumed", "executed"}
    /\ call' = [call EXCEPT ![c] = [@ EXCEPT !.pc = "complete", !.id = p, !.from = row[p].state,
                                             !.to = s]]
    /\ UNCHANGED <<row, token, told, clock>>

CompleteUpdate(c) ==
    LET k == call[c] IN
    /\ k.pc = "complete"
    /\ \/ Transition(k.id, k.from, k.to, row[k.id])
       \/ TransitionFails(k.id, k.from, k.to) /\ UNCHANGED row
    /\ call' = [call EXCEPT ![c] = Idle(@)]
    /\ UNCHANGED <<token, told, clock>>

Tick ==
    /\ clock < MaxClock
    /\ clock' = clock + 1
    /\ UNCHANGED <<row, token, call, told>>

ServiceStep(c) ==
    \/ \E p \in Proposals, d \in Decision, e \in Events, y \in Payloads : DecideGet(c, p, d, e, y)
    \/ DecideUpdate(c) \/ DecideRecheck(c)
    \/ \E p \in Proposals : PauseGet(c, p) \/ ResumeGet(c, p)
    \/ PauseUpsert(c) \/ PauseUpdate(c) \/ DeleteToken(c) \/ ResumeUpdate(c)
    \/ \E p \in Proposals, s \in {"executed", "failed", "rolled_back"} : CompleteGet(c, p, s)
    \/ CompleteUpdate(c)

Next ==
    \/ \E p \in Proposals, y \in Payloads, exp \in 0..MaxClock : CreateAgentTeams(p, y, exp)
    \/ \E p \in Proposals, d \in Decision : Decide(p, d)
    \/ \E c \in Callers : ServiceStep(c)
    \/ Tick

Spec == Init /\ [][Next]_hitlVars

-----------------------------------------------------------------------------
(* Properties *)

\* The types of the two tables, the calls under way and the answers given.
TypeOK ==
    /\ row \in [Proposals -> Row]
    /\ token \in [Proposals -> 0..(MaxPauses + 1) \cup {NoToken}]
    /\ call \in [Callers -> Call]
    /\ told \subseteq [id : Proposals, state : Decision, event : Events, payload : Payloads]
    /\ clock \in 0..MaxClock

\* The decision a caller is told is in force is the one the proposal left
\* pending by, made over that caller's own event and payload: however the
\* calls of TransitionAgentTeams race, two different decisions are never both
\* confirmed.
AnswersTruthful ==
    \A a \in told :
        /\ row[a.id].decided = a.state
        /\ row[a.id].event = a.event
        /\ row[a.id].payload = a.payload

\* Every change of a proposal's state is an edge of ValidTransitions; a state
\* read before the call never carries a row along an edge it has left.
StepsFollowTable ==
    [][\A p \in Proposals :
         row'[p].state # row[p].state =>
            \/ row[p].state = "absent" /\ row'[p].state = "pending"
            \/ IsValidTransition(row[p].state, row'[p].state)]_hitlVars

Quiet(p) == \A c \in Callers : call[c].pc = "idle" \/ call[c].id # p

\* "row exists iff Proposal.State = paused": when no call on the proposal is
\* under way, a paused proposal has a resume token of its own version
\* (LoadResumeToken succeeds) and any other proposal has none.
TokenIffPaused ==
    \A p \in Proposals :
        Quiet(p) => token[p] = IF row[p].state = "paused" THEN row[p].version ELSE NoToken
=============================================================================
