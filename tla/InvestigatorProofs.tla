------------------------- MODULE InvestigatorProofs -------------------------
(***************************************************************************)
(* What Investigator guarantees for any number of managers, incidents,     *)
(* requests, permits, triggers and faults.                                 *)
(*                                                                         *)
(* The argument: every id that was given out is in the table or was        *)
(* deleted by a trigger (IdsKnown), so a goroutine works on the report its *)
(* incident has or on one a trigger replaced; and a goroutine that has yet *)
(* to write its outcome finds its report not ready (NotYetReady), so only  *)
(* its own answer can be there.                                            *)
(***************************************************************************)
EXTENDS Investigator, FiniteSetTheorems, TLAPS

\* A goroutine inside Enqueue, and one inside run.
InvCalls ==
    {c \in [pc : {"rest", "list", "next", "stop", "delete", "unguard", "gate", "permit", "skip",
                  "create"},
            node : Nodes \cup {NoReport}, inc : IncidentIDs \cup {NoReport},
            prior : Nat \cup {NoReport}, todo : SUBSET IncidentIDs] :
       /\ c.pc # "rest" => c.node \in Nodes
       /\ c.pc \notin {"rest", "list", "next"} => c.inc \in IncidentIDs}

InvRuns == [pc : {"work", "attach", "write", "defer"}, node : Nodes, inc : IncidentIDs, ok : BOOLEAN]

Rows == [id : Nat, status : {"pending", "running", "ready", "failed", "skipped"},
         worker : Nat \cup {NoReport}, by : Nat \cup {NoReport}]

\* The types the argument needs.
InvTyped ==
    /\ raised \subseteq IncidentIDs
    /\ forces \in 0..MaxForces
    /\ ids \in Nat
    /\ report \in [IncidentIDs -> Rows \cup {NoRow}]
    /\ enq \in [Requesters -> InvCalls]
    /\ inv \in [Reports -> InvRuns \cup {Absent}]
    /\ inflight \in [Nodes -> SUBSET IncidentIDs]
    /\ sem \in [Nodes -> Int]
    /\ replaced \in [IncidentIDs -> SUBSET Nat]

\* Every report that a trigger deleted.
Deleted == UNION {replaced[i] : i \in IncidentIDs}

\* The calls of a trigger that has yet to delete.
Deleting == {q \in Requesters : enq[q].pc \in {"stop", "delete"}}

\* Each id that was given out is in the table or was deleted, and a trigger deletes
\* one at most: the ids do not run out.
IdsKnown ==
    /\ \A i \in IncidentIDs : report[i] # NoRow => report[i].id \in 1..ids
    /\ \A r \in Reports : inv[r] # Absent => r <= ids
    /\ \A r \in 1..ids : r \in Deleted \/ \E i \in IncidentIDs : report[i].id = r
    /\ IsFiniteSet(Deleted) /\ Cardinality(Deleted) + Cardinality(Deleting) <= forces

\* A goroutine that has yet to write its outcome finds its report not ready.
NotYetReady ==
    \A r \in Reports, i \in IncidentIDs :
        inv[r].pc \in {"work", "attach", "write"} /\ report[i].id = r => report[i].status # "ready"

InvestigatorInv ==
    InvTyped /\ IdsKnown /\ OneInvestigation /\ NotYetReady /\ AnswerOfItsRun /\ PermitsPaired
-----------------------------------------------------------------------------

\* A row and a run are told from their absence.
LEMMA RowFacts ==
    /\ NoRow \notin Rows /\ NoRow.id = NoReport /\ NoRow.status = "none"
    /\ Absent \notin InvRuns /\ Absent.pc = "gone" /\ Absent.node = NoReport
    /\ Resting \in InvCalls /\ Resting.pc = "rest" /\ Resting.todo = {}
    /\ Reports \subseteq Nat /\ IsFiniteSet(Reports)
<1>1. Cardinality(IncidentIDs) + MaxForces \in Int
  BY InvestigatorAssumption, FS_CardinalityType
<1>2. Reports \subseteq Nat /\ IsFiniteSet(Reports)
  BY <1>1, FS_Interval DEF Reports
<1> QED
  BY <1>2, InvestigatorAssumption, Zenon DEF NoRow, Rows, Absent, InvRuns, Resting, InvCalls

\* What the steps of Enqueue make of a call.
LEMMA CallFields ==
    ASSUME NEW c \in InvCalls
    PROVE  /\ c.todo \subseteq IncidentIDs /\ (c.pc # "rest" => c.node \in Nodes)
           /\ c.pc \notin {"rest", "list", "next"} => c.inc \in IncidentIDs
           /\ c.pc \notin {"rest", "list", "next"} =>
                /\ \A p \in {"delete", "unguard", "gate", "permit", "skip", "create"} :
                     [c EXCEPT !.pc = p] \in InvCalls
                /\ [c EXCEPT !.pc = "delete", !.prior = NoReport] \in InvCalls
           /\ c.pc # "rest" => [c EXCEPT !.pc = "next", !.inc = NoReport] \in InvCalls
           /\ c.pc = "list" => \A T \in SUBSET IncidentIDs :
                [c EXCEPT !.pc = "next", !.todo = T] \in InvCalls
           /\ c.pc = "next" => \A i \in c.todo :
                /\ [c EXCEPT !.todo = @ \ {i}, !.pc = "next", !.inc = NoReport] \in InvCalls
                /\ [c EXCEPT !.todo = @ \ {i}, !.pc = "gate", !.inc = i] \in InvCalls
BY ZenonT(30) DEF InvCalls

\* What a request begins with.
LEMMA NewCalls ==
    ASSUME NEW n \in Nodes
    PROVE  /\ [Resting EXCEPT !.pc = "list", !.node = n] \in InvCalls
           /\ \A i \in IncidentIDs :
                /\ [Resting EXCEPT !.pc = "gate", !.node = n, !.inc = i] \in InvCalls
                /\ \A w \in Nat \cup {NoReport} :
                     [Resting EXCEPT !.pc = "stop", !.node = n, !.inc = i, !.prior = w] \in InvCalls
BY ZenonT(30) DEF InvCalls, Resting

\* What the statements make of a row.
LEMMA RowFields ==
    ASSUME NEW w \in Rows \cup {NoRow}
    PROVE  /\ w.worker \in Nat \cup {NoReport}
           /\ w.status \in Open => [w EXCEPT !.status = "failed"] \in Rows
           /\ \A r \in Nat : w.id = r =>
                /\ [w EXCEPT !.status = "running", !.worker = r] \in Rows
                /\ \A ok \in BOOLEAN :
                     [w EXCEPT !.status = IF ok THEN "ready" ELSE "failed",
                               !.by = IF ok THEN r ELSE @] \in Rows
<1>1. CASE w = NoRow
  BY <1>1, InvestigatorAssumption, ZenonT(30) DEF NoRow, Open
<1>2. CASE w \in Rows
  <2>1. w.worker \in Nat \cup {NoReport} /\ [w EXCEPT !.status = "failed"] \in Rows
    BY <1>2, Zenon DEF Rows
  <2>2. ASSUME NEW r \in Nat PROVE [w EXCEPT !.status = "running", !.worker = r] \in Rows
    BY <1>2, Zenon DEF Rows
  <2>3. ASSUME NEW r \in Nat, NEW ok \in BOOLEAN
        PROVE  [w EXCEPT !.status = IF ok THEN "ready" ELSE "failed",
                         !.by = IF ok THEN r ELSE @] \in Rows
    BY <1>2, Zenon DEF Rows
  <2> QED
    BY <2>1, <2>2, <2>3, Zenon
<1> QED
  BY <1>1, <1>2, ZenonT(30)

\* What the steps of run make of its goroutine.
LEMMA RunFields ==
    ASSUME NEW x \in InvRuns \cup {Absent}, x.pc # "gone"
    PROVE  /\ x \in InvRuns /\ x # Absent
           /\ x.node \in Nodes /\ x.inc \in IncidentIDs /\ x.ok \in BOOLEAN
           /\ \A p \in {"write", "defer"} : [x EXCEPT !.pc = p] \in InvRuns
           /\ \A ok \in BOOLEAN : [x EXCEPT !.pc = "attach", !.ok = ok] \in InvRuns
BY RowFacts, Zenon DEF InvRuns

\* Every step keeps the types.
LEMMA InvTypedKept ==
    ASSUME InvTyped, [InvNext]_invVars PROVE InvTyped'
<1> USE InvestigatorAssumption, RowFacts DEF guards
<1>1. CASE UNCHANGED invVars
  BY <1>1, Zenon DEF InvTyped, invVars
<1>2. ASSUME NEW q \in Requesters, NEW n \in Nodes, NEW i \in IncidentIDs, Fires(q, n, i) PROVE
    InvTyped'
  BY <1>2, NewCalls, Zenon DEF InvTyped, Fires
<1>3. ASSUME NEW i \in IncidentIDs, FiresUnwired(i) PROVE InvTyped'
  BY <1>3, Zenon DEF InvTyped, FiresUnwired, InvFault
<1>4. ASSUME NEW q \in Requesters, NEW n \in Nodes, NEW i \in IncidentIDs, ForceTrigger(q, n, i)
    PROVE InvTyped'
  <2>1. report[i].worker \in Nat \cup {NoReport}
    BY RowFields, ZenonT(30) DEF InvTyped
  <2>2. [Resting EXCEPT !.pc = "stop", !.node = n, !.inc = i, !.prior = report[i].worker] \in
      InvCalls
    BY <2>1, NewCalls, ZenonT(30)
  <2> QED
    BY <1>4, <2>2 DEF InvTyped, ForceTrigger
<1>5. ASSUME NEW q \in Requesters, NEW n \in Nodes, Starts(q, n) PROVE InvTyped'
  <2>1. \A i \in IncidentIDs : Healed(report[i]) \in Rows \cup {NoRow}
    BY RowFields, Zenon DEF InvTyped, Healed
  <2>2. report' \in [IncidentIDs -> Rows \cup {NoRow}]
    BY <1>5, <2>1 DEF InvTyped, Starts
  <2> QED
    BY <1>5, <2>2, NewCalls, ZenonT(30) DEF InvTyped, Starts
<1>6. ASSUME NEW q \in Requesters, ListUnstarted(q) PROVE InvTyped'
  <2> DEFINE T == {i \in raised : report[i] = NoRow}
  <2>1. enq[q] \in InvCalls /\ enq[q].pc = "list" /\ T \in SUBSET IncidentIDs
    BY <1>6, Zenon DEF InvTyped, ListUnstarted
  <2>2. [enq[q] EXCEPT !.pc = "next", !.todo = T] \in InvCalls
    BY <2>1, CallFields, Zenon
  <2> QED
    BY <1>6, <2>2, Zenon DEF InvTyped, ListUnstarted
<1>7. ASSUME NEW q \in Requesters, NEW i \in enq[q].todo, NEW skip \in BOOLEAN, Backfill(q, i, skip)
    PROVE InvTyped'
  <2>1. enq[q] \in InvCalls /\ enq[q].pc = "next" /\ i \in enq[q].todo
    BY <1>7, Zenon DEF InvTyped, Backfill
  <2>2. /\ [enq[q] EXCEPT !.todo = @ \ {i}, !.pc = "next", !.inc = NoReport] \in InvCalls
        /\ [enq[q] EXCEPT !.todo = @ \ {i}, !.pc = "gate", !.inc = i] \in InvCalls
    BY <2>1, CallFields, Zenon
  <2> QED
    BY <1>7, <2>2, Zenon DEF InvTyped, Backfill
<1>8. ASSUME NEW q \in Requesters, BackfillEnds(q) PROVE InvTyped'
  BY <1>8, Zenon DEF InvTyped, BackfillEnds
<1>9. ASSUME NEW q \in Requesters, StopPrior(q) PROVE InvTyped'
  <2>1. enq[q] \in InvCalls /\ enq[q].pc = "stop"
    BY <1>9, Zenon DEF InvTyped, StopPrior
  <2>2. [enq[q] EXCEPT !.pc = "delete", !.prior = NoReport] \in InvCalls
    BY <2>1, CallFields, ZenonT(30)
  <2>3. inv' \in [Reports -> InvRuns \cup {Absent}]
    BY <1>9, RunFields, Zenon DEF InvTyped, StopPrior
  <2> QED
    BY <1>9, <2>2, <2>3, Zenon DEF InvTyped, StopPrior
<1>10. ASSUME NEW q \in Requesters, DeletePrior(q) PROVE InvTyped'
  <2>1. enq[q] \in InvCalls /\ enq[q].pc = "delete"
    BY <1>10, Zenon DEF InvTyped, DeletePrior
  <2>2. enq[q].inc \in IncidentIDs /\ [enq[q] EXCEPT !.pc = "unguard"] \in InvCalls
    BY <2>1, CallFields, Zenon
  <2>3. report[enq[q].inc] # NoRow => report[enq[q].inc].id \in Nat
    BY <2>2, Zenon DEF InvTyped, Rows
  <2> QED
    BY <1>10, <2>2, <2>3, Zenon DEF InvTyped, DeletePrior
<1>11. ASSUME NEW q \in Requesters, DeletePriorFails(q) PROVE InvTyped'
  BY <1>11, Zenon DEF InvTyped, DeletePriorFails, InvFault
<1>12. ASSUME NEW q \in Requesters, Unguard(q) PROVE InvTyped'
  <2>1. enq[q] \in InvCalls /\ enq[q].pc = "unguard"
    BY <1>12, Zenon DEF InvTyped, Unguard
  <2>2. enq[q].node \in Nodes /\ [enq[q] EXCEPT !.pc = "gate"] \in InvCalls
    BY <2>1, CallFields, Zenon
  <2> QED
    BY <1>12, <2>2, Zenon DEF InvTyped, Unguard
<1>13. ASSUME NEW q \in Requesters, Gate(q) PROVE InvTyped'
  <2>1. enq[q] \in InvCalls /\ enq[q].pc = "gate"
    BY <1>13, Zenon DEF InvTyped, Gate
  <2>2. /\ enq[q].node \in Nodes /\ enq[q].inc \in IncidentIDs
        /\ [enq[q] EXCEPT !.pc = "permit"] \in InvCalls /\ Returned(q) \in InvCalls
    BY <2>1, CallFields, Zenon DEF Returned
  <2> QED
    BY <1>13, <2>2 DEF InvTyped, Gate
<1>14. ASSUME NEW q \in Requesters, Permit(q) PROVE InvTyped'
  <2>1. enq[q] \in InvCalls /\ enq[q].pc = "permit"
    BY <1>14, Zenon DEF InvTyped, Permit
  <2>2. /\ enq[q].node \in Nodes
        /\ [enq[q] EXCEPT !.pc = "create"] \in InvCalls /\ [enq[q] EXCEPT !.pc = "skip"] \in
            InvCalls
    BY <2>1, CallFields, Zenon
  <2> QED
    BY <1>14, <2>2 DEF InvTyped, Permit
<1>15. ASSUME NEW q \in Requesters, CreateSkipped(q) PROVE InvTyped'
  <2>1. enq[q] \in InvCalls /\ enq[q].pc = "skip"
    BY <1>15, Zenon DEF InvTyped, CreateSkipped
  <2>2. enq[q].inc \in IncidentIDs /\ Returned(q) \in InvCalls
    BY <2>1, CallFields, Zenon DEF Returned
  <2>3. NewRow("skipped") \in Rows
    <3>1. ids + 1 \in Nat
      BY DEF InvTyped
    <3> QED
      BY <3>1, Zenon DEF NewRow, NoRow, Rows
  <2> QED
    BY <1>15, <2>2, <2>3 DEF InvTyped, CreateSkipped, InvFault
<1>16. ASSUME NEW q \in Requesters, CreatePending(q) PROVE InvTyped'
  <2>1. enq[q] \in InvCalls /\ enq[q].pc = "create"
    BY <1>16, Zenon DEF InvTyped, CreatePending
  <2>2. enq[q].node \in Nodes /\ enq[q].inc \in IncidentIDs /\ Returned(q) \in InvCalls
    BY <2>1, CallFields, Zenon DEF Returned
  <2>3. NewRow("pending") \in Rows
    <3>1. ids + 1 \in Nat
      BY DEF InvTyped
    <3> QED
      BY <3>1, Zenon DEF NewRow, NoRow, Rows
  <2>4. [pc |-> "work", node |-> enq[q].node, inc |-> enq[q].inc, ok |-> FALSE] \in InvRuns
    BY <2>2, Zenon DEF InvRuns
  <2> QED
    <3>1. inv' \in [Reports -> InvRuns \cup {Absent}]
      BY <1>16, <2>4, Zenon DEF InvTyped, CreatePending, Begun
    <3>2. report' \in [IncidentIDs -> Rows \cup {NoRow}] /\ enq' \in [Requesters -> InvCalls]
      BY <1>16, <2>2, <2>3, Zenon DEF InvTyped, CreatePending
    <3> QED
      BY <1>16, <3>1, <3>2 DEF InvTyped, CreatePending
<1>17. ASSUME NEW q \in Requesters, CreateFails(q) PROVE InvTyped'
  <2>1. enq[q] \in InvCalls /\ enq[q].pc = "create"
    BY <1>17, Zenon DEF InvTyped, CreateFails
  <2>2. enq[q].node \in Nodes /\ Returned(q) \in InvCalls
    BY <2>1, CallFields, Zenon DEF Returned
  <2> QED
    BY <1>17, <2>2 DEF InvTyped, CreateFails
<1>18. ASSUME NEW r \in Reports, NEW ok \in BOOLEAN, WorkerEnds(r, ok) PROVE InvTyped'
  <2>1. inv' \in [Reports -> InvRuns \cup {Absent}]
    BY <1>18, RunFields, ZenonT(30) DEF InvTyped, WorkerEnds
  <2> QED
    BY <1>18, <2>1, Zenon DEF InvTyped, WorkerEnds
<1>19. ASSUME NEW r \in Reports, SpawnRefused(r) PROVE InvTyped'
  <2>1. inv' \in [Reports -> InvRuns \cup {Absent}]
    BY <1>19, RunFields, ZenonT(30) DEF InvTyped, SpawnRefused
  <2> QED
    BY <1>19, <2>1, Zenon DEF InvTyped, SpawnRefused
<1>20. ASSUME NEW r \in Reports, AttachWorker(r) PROVE InvTyped'
  <2>1. inv' \in [Reports -> InvRuns \cup {Absent}] /\ inv[r].ok \in BOOLEAN
    BY <1>20, RunFields, ZenonT(30) DEF InvTyped, AttachWorker
  <2>2. ASSUME NEW i \in IncidentIDs, i \in Target(r)
        PROVE  [report[i] EXCEPT !.status = "running", !.worker = r] \in Rows
    <3>1. report[i] \in Rows \cup {NoRow} /\ report[i].id = r /\ r \in Nat
      BY <2>2, Zenon DEF InvTyped, Target
    <3> QED
      BY <2>1, <3>1, RowFields, Zenon
  <2>3. report' \in [IncidentIDs -> Rows \cup {NoRow}]
    <3> DEFINE W(i) == [report[i] EXCEPT !.status = "running", !.worker = r]
    <3>1. \/ report' = [i \in IncidentIDs |-> IF i \in Target(r) THEN W(i) ELSE report[i]]
          \/ report' = report
      BY <1>20, ZenonT(30) DEF AttachWorker
    <3>2. \A i \in IncidentIDs : i \in Target(r) => W(i) \in Rows
      BY <2>2, ZenonT(30)
    <3> HIDE DEF W
    <3> QED
      BY <3>1, <3>2 DEF InvTyped
  <2> QED
    BY <1>20, <2>1, <2>3, ZenonT(30) DEF InvTyped, AttachWorker
<1>21. ASSUME NEW r \in Reports, WriteOutcome(r) PROVE InvTyped'
  <2>1. inv' \in [Reports -> InvRuns \cup {Absent}] /\ inv[r].ok \in BOOLEAN
    BY <1>21, RunFields, ZenonT(30) DEF InvTyped, WriteOutcome
  <2>2. ASSUME NEW i \in IncidentIDs, i \in Target(r)
        PROVE  [report[i] EXCEPT !.status = IF inv[r].ok THEN "ready" ELSE "failed",
                                 !.by = IF inv[r].ok THEN r ELSE @] \in Rows
    <3>1. report[i] \in Rows \cup {NoRow} /\ report[i].id = r /\ r \in Nat
      BY <2>2 DEF InvTyped, Target
    <3> QED
      BY <2>1, <3>1, RowFields, ZenonT(30)
  <2>3. report' \in [IncidentIDs -> Rows \cup {NoRow}]
    <3> DEFINE W(i) == [report[i] EXCEPT !.status = IF inv[r].ok THEN "ready" ELSE "failed",
                                 !.by = IF inv[r].ok THEN r ELSE @]
    <3>1. \/ report' = [i \in IncidentIDs |-> IF i \in Target(r) THEN W(i) ELSE report[i]]
          \/ report' = report
      BY <1>21, ZenonT(30) DEF WriteOutcome
    <3>2. \A i \in IncidentIDs : i \in Target(r) => W(i) \in Rows
      BY <2>2, Zenon
    <3> HIDE DEF W
    <3> QED
      BY <3>1, <3>2 DEF InvTyped
  <2> QED
    BY <1>21, <2>1, <2>3, ZenonT(30) DEF InvTyped, WriteOutcome
<1>22. ASSUME NEW r \in Reports, RunEnds(r) PROVE InvTyped'
  <2>1. inv[r].node \in Nodes
    BY <1>22, RunFields, Zenon DEF InvTyped, RunEnds
  <2> QED
    BY <1>22, <2>1 DEF InvTyped, RunEnds
<1>23. ASSUME NEW n \in Nodes, NodeDies(n) PROVE InvTyped'
  BY <1>23 DEF InvTyped, NodeDies, InvFault
<1> QED
  BY <1>1, <1>2, <1>3, <1>4, <1>5, <1>6, <1>7, <1>8, <1>9, <1>10, <1>11, <1>12, <1>13, <1>14, <1>15,
      <1>16, <1>17, <1>18, <1>19, <1>20, <1>21, <1>22, <1>23, SMTT(30)
     DEF InvNext, InvProceeds, EnqueueStep,
      RunStep

\* A row is there if it has an id.
LEMMA RowThere ==
    ASSUME NEW w \in Rows \cup {NoRow} PROVE w # NoRow <=> w.id \in Nat
BY RowFacts, InvestigatorAssumption, Zenon DEF Rows

\* A statement that writes a status leaves the ids.
LEMMA StatusWrites ==
    ASSUME InvTyped, \/ \E q \in Requesters, n \in Nodes : Starts(q, n)
                     \/ \E r \in Reports : AttachWorker(r) \/ WriteOutcome(r)
    PROVE  \A i \in IncidentIDs : report'[i].id = report[i].id
<1> SUFFICES ASSUME NEW i \in IncidentIDs PROVE report'[i].id = report[i].id
  BY Zenon
<1>1. report[i] \in Rows \cup {NoRow}
  BY Zenon DEF InvTyped
<1>2. ASSUME NEW q \in Requesters, NEW n \in Nodes, Starts(q, n) PROVE report'[i].id = report[i].id
  BY <1>1, <1>2, ZenonT(30) DEF Starts, Healed, Rows, NoRow
<1>3. ASSUME NEW r \in Reports, AttachWorker(r) PROVE report'[i].id = report[i].id
  BY <1>1, <1>3, ZenonT(30) DEF AttachWorker, Rows, NoRow
<1>4. ASSUME NEW r \in Reports, WriteOutcome(r) PROVE report'[i].id = report[i].id
  <2> DEFINE w == [report[i] EXCEPT !.status = IF inv[r].ok THEN "ready" ELSE "failed",
                                    !.by = IF inv[r].ok THEN r ELSE @]
  <2>1. w.id = report[i].id
    BY <1>1, Zenon DEF Rows, NoRow
  <2>2. report'[i] = report[i] \/ report'[i] = w
    BY <1>4, ZenonT(30) DEF WriteOutcome
  <2> QED
    BY <2>1, <2>2, Zenon
<1> QED
  BY <1>2, <1>3, <1>4, Zenon

\* FailOrphaned leaves a report that is ready and makes none so.
LEMMA HealedRows ==
    ASSUME InvTyped, NEW q \in Requesters, NEW n \in Nodes, Starts(q, n), NEW i \in IncidentIDs
    PROVE  report'[i] = report[i] \/ (report[i].status # "ready" /\ report'[i].status = "failed")
<1>1. report[i] \in Rows \cup {NoRow}
  BY Zenon DEF InvTyped
<1> QED
  BY <1>1 DEF Starts, Healed, Open, Rows, NoRow

\* AttachWorker writes the row of its report.
LEMMA AttachedRows ==
    ASSUME InvTyped, NEW r \in Reports, AttachWorker(r), NEW i \in IncidentIDs
    PROVE  report'[i] = report[i] \/ (report[i].id = r /\ report'[i].status = "running")
<1>1. report[i] \in Rows \cup {NoRow}
  BY Zenon DEF InvTyped
<1> QED
  BY <1>1, Zenon DEF AttachWorker, Target, Rows, NoRow

\* So do MarkReady and UpdateStatus.
LEMMA WrittenRows ==
    ASSUME InvTyped, NEW r \in Reports, WriteOutcome(r), NEW i \in IncidentIDs
    PROVE  \/ report'[i] = report[i]
           \/ report[i].id = r /\ (report'[i].status = "ready" => report'[i].by = r)
<1>1. report[i] \in Rows \cup {NoRow} /\ inv[r].ok \in BOOLEAN
  BY RunFields, Zenon DEF InvTyped, WriteOutcome
<1> DEFINE w == [report[i] EXCEPT !.status = IF inv[r].ok THEN "ready" ELSE "failed",
                                  !.by = IF inv[r].ok THEN r ELSE @]
<1>2. w.status = "ready" => w.by = r
  BY <1>1, Zenon DEF Rows, NoRow
<1>3. report'[i] = report[i] \/ (report[i].id = r /\ report'[i] = w)
  BY Zenon DEF WriteOutcome, Target
<1> QED
  BY <1>2, <1>3, Zenon

\* A goroutine that goes on is where it was, for the incident it was for.
LEMMA SameRuns ==
    ASSUME InvTyped, \/ \E q \in Requesters : StopPrior(q)
                     \/ \E r \in Reports : \/ SpawnRefused(r) \/ AttachWorker(r) \/ WriteOutcome(r)
                                           \/ \E ok \in BOOLEAN : WorkerEnds(r, ok)
    PROVE  \A x \in Reports : /\ inv'[x] = Absent <=> inv[x] = Absent
                              /\ inv'[x].node = inv[x].node /\ inv'[x].inc = inv[x].inc
<1> SUFFICES ASSUME NEW x \in Reports
             PROVE  /\ inv'[x] = Absent <=> inv[x] = Absent
                    /\ inv'[x].node = inv[x].node /\ inv'[x].inc = inv[x].inc
  BY Zenon
<1> DEFINE Same == /\ inv'[x] = Absent <=> inv[x] = Absent
                   /\ inv'[x].node = inv[x].node /\ inv'[x].inc = inv[x].inc
<1>1. inv \in [Reports -> InvRuns \cup {Absent}]
  BY Zenon DEF InvTyped
<1>2. ASSUME NEW p \in {"write", "defer"}, inv[x].pc # "gone", inv'[x] = [inv[x] EXCEPT !.pc = p]
      PROVE  Same
  <2>1. inv[x] \in InvRuns /\ inv'[x] \in InvRuns
    BY <1>1, <1>2, RunFields, Zenon
  <2> QED
    BY <1>2, <2>1, RowFacts, Zenon DEF InvRuns
<1>3. ASSUME NEW ok \in BOOLEAN, inv[x].pc # "gone",
             inv'[x] = [inv[x] EXCEPT !.pc = "attach", !.ok = ok]
      PROVE  Same
  <2>1. inv[x] \in InvRuns /\ inv'[x] \in InvRuns
    BY <1>1, <1>3, RunFields, ZenonT(30)
  <2> QED
    BY <1>3, <2>1, RowFacts, Zenon DEF InvRuns
<1>4. ASSUME NEW q \in Requesters, StopPrior(q) PROVE Same
  <2>1. \/ inv'[x] = inv[x]
        \/ inv[x].pc # "gone" /\ inv'[x] = [inv[x] EXCEPT !.pc = "attach", !.ok = FALSE]
    BY <1>1, <1>4, ZenonT(30) DEF StopPrior
  <2> QED
    BY <1>3, <2>1, ZenonT(30)
<1>5. ASSUME NEW r \in Reports, NEW ok \in BOOLEAN, WorkerEnds(r, ok) PROVE Same
  <2>1. \/ inv'[x] = inv[x]
        \/ inv[x].pc # "gone" /\ inv'[x] = [inv[x] EXCEPT !.pc = "attach", !.ok = ok]
    BY <1>1, <1>5, Zenon DEF WorkerEnds
  <2> QED
    BY <1>3, <2>1, Zenon
<1>6. ASSUME NEW r \in Reports, SpawnRefused(r) \/ AttachWorker(r) \/ WriteOutcome(r) PROVE Same
  <2>1. \/ inv'[x] = inv[x]
        \/ inv[x].pc # "gone" /\ inv'[x] = [inv[x] EXCEPT !.pc = "write"]
        \/ inv[x].pc # "gone" /\ inv'[x] = [inv[x] EXCEPT !.pc = "defer"]
    BY <1>1, <1>6, Zenon DEF SpawnRefused, AttachWorker, WriteOutcome
  <2> QED
    BY <1>2, <2>1, Zenon
<1> QED
  BY <1>4, <1>5, <1>6, Zenon

\* A call that has returned rests, or goes on with its list.
LEMMA ReturnedFact ==
    ASSUME InvTyped, NEW q \in Requesters PROVE Returned(q).pc \in {"rest", "next"}
<1>1. enq[q] \in InvCalls
  BY Zenon DEF InvTyped
<1> QED
  BY <1>1, RowFacts, Zenon DEF Returned, InvCalls

\* The number of calls of triggers is finite.
LEMMA DeletingFinite == IsFiniteSet(Deleting) /\ Cardinality(Deleting) \in Nat
BY InvestigatorAssumption, FS_Subset, FS_CardinalityType, Zenon DEF Deleting

\* A step that gives out no id, deletes no report and begins no trigger or run.
LEMMA IdsStep ==
    ASSUME InvTyped, InvTyped', IdsKnown, UNCHANGED <<ids, replaced, forces>>,
           \A i \in IncidentIDs : report'[i].id = report[i].id,
           \A r \in Reports : inv'[r] # Absent => inv[r] # Absent,
           Deleting' \subseteq Deleting
    PROVE  IdsKnown'
<1>1. \A i \in IncidentIDs : report'[i] # NoRow <=> report[i] # NoRow
  BY RowThere, Zenon DEF InvTyped
<1>2. Deleted' = Deleted
  BY Zenon DEF Deleted
<1>3. IsFiniteSet(Deleting) /\ Cardinality(Deleting') <= Cardinality(Deleting)
  BY DeletingFinite, FS_Subset, Zenon
<1>4. Cardinality(Deleting') \in Nat /\ Cardinality(Deleting) \in Nat /\ Cardinality(Deleted) \in Nat
  BY <1>3, FS_Subset, FS_CardinalityType, Zenon DEF IdsKnown
<1> QED
  BY <1>1, <1>2, <1>3, <1>4, SMTT(30) DEF InvTyped, IdsKnown

\* Every id that was given out stays accounted for.
LEMMA IdsKept ==
    ASSUME InvTyped, IdsKnown, [InvNext]_invVars PROVE IdsKnown'
<1> USE InvestigatorAssumption, RowFacts DEF guards
<1>1. CASE UNCHANGED invVars
  <2>1. Deleted' = Deleted /\ Deleting' = Deleting
    BY <1>1, Zenon DEF Deleted, Deleting, invVars
  <2> QED
    BY <1>1, <2>1, Zenon DEF IdsKnown, invVars
<1>2. ASSUME NEW q \in Requesters, NEW n \in Nodes, NEW i \in IncidentIDs, Fires(q, n, i) PROVE
    IdsKnown'
  <2>1. Deleting' \subseteq Deleting
    BY <1>2, Zenon DEF InvTyped, InvCalls, Deleting, Fires, Begins
  <2>2. InvTyped'
    BY <1>2, InvTypedKept, Zenon DEF InvNext, InvProceeds, EnqueueStep
  <2> QED
    BY <1>2, <2>1, <2>2, IdsStep, Zenon DEF Fires
<1>3. ASSUME NEW i \in IncidentIDs, FiresUnwired(i) PROVE IdsKnown'
  <2>1. Deleting' = Deleting
    BY <1>3, Zenon DEF Deleting, FiresUnwired
  <2>2. InvTyped'
    BY <1>3, InvTypedKept, Zenon DEF InvNext, InvProceeds, RunStep
  <2> QED
    BY <1>3, <2>1, <2>2, IdsStep, Zenon DEF FiresUnwired
<1>4. ASSUME NEW q \in Requesters, NEW n \in Nodes, NEW i \in IncidentIDs, ForceTrigger(q, n, i)
    PROVE IdsKnown'
  <2>1. Deleting' = Deleting \cup {q} /\ q \notin Deleting
    BY <1>4, Zenon DEF InvTyped, Resting, Deleting, ForceTrigger, Begins
  <2>2. Cardinality(Deleting) \in Nat /\ Cardinality(Deleting') = Cardinality(Deleting) + 1
    BY <2>1, DeletingFinite, FS_AddElement, Zenon
  <2>3. Deleted' = Deleted /\ Cardinality(Deleted) \in Nat
    BY <1>4, FS_CardinalityType DEF Deleted, ForceTrigger, IdsKnown
  <2> QED
    BY <1>4, <2>2, <2>3 DEF InvTyped, IdsKnown, ForceTrigger
<1>5. ASSUME NEW q \in Requesters, NEW n \in Nodes, Starts(q, n) PROVE IdsKnown'
  <2>1. Deleting' \subseteq Deleting
    BY <1>5, Zenon DEF InvTyped, InvCalls, Deleting, Starts, Begins
  <2>2. InvTyped'
    BY <1>5, InvTypedKept, Zenon DEF InvNext, InvProceeds, EnqueueStep
  <2> QED
    BY <1>5, <2>1, <2>2, IdsStep, StatusWrites, Zenon DEF Starts
<1>6. ASSUME NEW q \in Requesters, ListUnstarted(q) PROVE IdsKnown'
  <2>1. Deleting' \subseteq Deleting
    BY <1>6 DEF InvTyped, InvCalls, Deleting, ListUnstarted
  <2>2. InvTyped'
    BY <1>6, InvTypedKept, Zenon DEF InvNext, InvProceeds, EnqueueStep
  <2> QED
    BY <1>6, <2>1, <2>2, IdsStep, Zenon DEF ListUnstarted
<1>7. ASSUME NEW q \in Requesters, NEW i \in enq[q].todo, NEW skip \in BOOLEAN, Backfill(q, i, skip)
    PROVE IdsKnown'
  <2>1. Deleting' \subseteq Deleting
    BY <1>7 DEF InvTyped, InvCalls, Deleting, Backfill
  <2>2. InvTyped'
    BY <1>7, InvTypedKept, Zenon DEF InvNext, InvProceeds, EnqueueStep
  <2> QED
    BY <1>7, <2>1, <2>2, IdsStep, Zenon DEF Backfill
<1>8. ASSUME NEW q \in Requesters, BackfillEnds(q) PROVE IdsKnown'
  <2>1. Deleting' \subseteq Deleting
    BY <1>8, Zenon DEF InvTyped, InvCalls, Deleting, BackfillEnds
  <2>2. InvTyped'
    BY <1>8, InvTypedKept, Zenon DEF InvNext, InvProceeds, EnqueueStep
  <2> QED
    BY <1>8, <2>1, <2>2, IdsStep, Zenon DEF BackfillEnds
<1>9. ASSUME NEW q \in Requesters, StopPrior(q) PROVE IdsKnown'
  <2>1. Deleting' \subseteq Deleting
    BY <1>9, Zenon DEF InvTyped, InvCalls, Deleting, StopPrior
  <2>2. InvTyped'
    BY <1>9, InvTypedKept, Zenon DEF InvNext, InvProceeds, EnqueueStep
  <2> QED
    BY <1>9, <2>1, <2>2, IdsStep, SameRuns, Zenon DEF StopPrior
<1>10. ASSUME NEW q \in Requesters, DeletePrior(q) PROVE IdsKnown'
  <2> DEFINE i == enq[q].inc
  <2>1. i \in IncidentIDs /\ q \in Deleting /\ report[i] \in Rows \cup {NoRow}
    BY <1>10, CallFields, Zenon DEF InvTyped, Deleting, DeletePrior
  <2>2. Deleting' = Deleting \ {q}
    BY <1>10 DEF InvTyped, InvCalls, Deleting, DeletePrior
  <2>3. /\ Cardinality(Deleting) \in Nat /\ Cardinality(Deleted) \in Nat
        /\ Cardinality(Deleting') = Cardinality(Deleting) - 1
    BY <2>1, <2>2, DeletingFinite, FS_RemoveElement, FS_CardinalityType, Zenon DEF IdsKnown
  <2>4. CASE report[i] = NoRow
    <3>1. report' = report /\ Deleted' = Deleted
      BY <1>10, <2>1, <2>4 DEF InvTyped, Deleted, DeletePrior
    <3> QED
      BY <1>10, <2>3, <3>1 DEF InvTyped, IdsKnown, DeletePrior
  <2>5. CASE report[i] # NoRow
    <3>1. Deleted' = Deleted \cup {report[i].id}
      BY <1>10, <2>1, <2>5 DEF InvTyped, Deleted, DeletePrior
    <3>2. /\ IsFiniteSet(Deleted') /\ Cardinality(Deleted') \in Nat
          /\ Cardinality(Deleted') <= Cardinality(Deleted) + 1
      <4>1. IsFiniteSet(Deleted)
        BY Zenon DEF IdsKnown
      <4>2. /\ IsFiniteSet(Deleted')
            /\ Cardinality(Deleted') = IF report[i].id \in Deleted THEN Cardinality(Deleted)
                                                                   ELSE Cardinality(Deleted) + 1
        BY <3>1, <4>1, FS_AddElement, Zenon
      <4> QED
        BY <2>3, <4>2
    <3>3. /\ report'[i] = NoRow /\ \A j \in IncidentIDs \ {i} : report'[j] = report[j]
          /\ UNCHANGED <<ids, inv, forces>>
      BY <1>10, <2>1, Zenon DEF InvTyped, DeletePrior
    <3>4. \A r \in 1..ids : r \in Deleted' \/ \E j \in IncidentIDs : report'[j].id = r
      BY <2>1, <3>1, <3>3 DEF IdsKnown
    <3> QED
      BY <2>3, <3>2, <3>3, <3>4 DEF InvTyped, IdsKnown
  <2> QED
    BY <2>4, <2>5, Zenon
<1>11. ASSUME NEW q \in Requesters, DeletePriorFails(q) PROVE IdsKnown'
  <2>1. Deleting' \subseteq Deleting
    BY <1>11, Zenon DEF InvTyped, InvCalls, Deleting, DeletePriorFails
  <2>2. InvTyped'
    BY <1>11, InvTypedKept, Zenon DEF InvNext, InvProceeds, EnqueueStep
  <2> QED
    BY <1>11, <2>1, <2>2, IdsStep, Zenon DEF DeletePriorFails
<1>12. ASSUME NEW q \in Requesters, Unguard(q) PROVE IdsKnown'
  <2>1. Deleting' \subseteq Deleting
    BY <1>12 DEF InvTyped, InvCalls, Deleting, Unguard
  <2>2. InvTyped'
    BY <1>12, InvTypedKept, Zenon DEF InvNext, InvProceeds, EnqueueStep
  <2> QED
    BY <1>12, <2>1, <2>2, IdsStep, Zenon DEF Unguard
<1>13. ASSUME NEW q \in Requesters, Gate(q) PROVE IdsKnown'
  <2>1. Deleting' \subseteq Deleting
    <3>1. PICK c : enq' = [enq EXCEPT ![q] = c] /\ c.pc \notin {"stop", "delete"}
      <4>1. enq[q] \in InvCalls
        BY Zenon DEF InvTyped
      <4> QED
        BY <1>13, <4>1, ReturnedFact DEF InvCalls, Gate
    <3> QED
      BY <3>1, Zenon DEF InvTyped, Deleting
  <2>2. InvTyped'
    BY <1>13, InvTypedKept, Zenon DEF InvNext, InvProceeds, EnqueueStep
  <2> QED
    BY <1>13, <2>1, <2>2, IdsStep, Zenon DEF Gate
<1>14. ASSUME NEW q \in Requesters, Permit(q) PROVE IdsKnown'
  <2>1. Deleting' \subseteq Deleting
    <3>1. PICK c : enq' = [enq EXCEPT ![q] = c] /\ c.pc \notin {"stop", "delete"}
      <4>1. enq[q] \in InvCalls
        BY DEF InvTyped
      <4> QED
        BY <1>14, <4>1, ReturnedFact DEF InvCalls, Permit
    <3> QED
      BY <3>1 DEF InvTyped, Deleting
  <2>2. InvTyped'
    BY <1>14, InvTypedKept, Zenon DEF InvNext, InvProceeds, EnqueueStep
  <2> QED
    BY <1>14, <2>1, <2>2, IdsStep, Zenon DEF Permit
<1>15. ASSUME NEW q \in Requesters, CreateSkipped(q) PROVE IdsKnown'
  <2> DEFINE i == enq[q].inc
  <2>1. i \in IncidentIDs /\ enq[q] \in InvCalls
    BY <1>15, CallFields, Zenon DEF InvTyped, CreateSkipped
  <2>2. Deleting' = Deleting /\ Deleted' = Deleted /\ UNCHANGED forces
    BY <1>15, <2>1 DEF InvTyped, InvCalls, Resting, Deleting, Deleted, CreateSkipped, Returned
  <2>3. CASE ids' = ids /\ UNCHANGED <<report, inv>>
    BY <2>2, <2>3, Zenon DEF IdsKnown
  <2>4. CASE ids' = ids + 1 /\ report[i] = NoRow
    <3>1. report' = [report EXCEPT ![i] = NewRow("skipped")]
      BY <1>15, <2>4 DEF InvTyped, CreateSkipped
    <3>2. report'[i].id = ids + 1 /\ \A j \in IncidentIDs \ {i} : report'[j] = report[j]
      BY <2>1, <3>1, Zenon DEF InvTyped, NewRow, NoRow
    <3>3. \A r \in Reports : inv'[r] # Absent => inv[r] # Absent \/ r = ids + 1
      BY <1>15, Zenon DEF InvTyped, CreateSkipped, Begun
    <3>4. \A r \in 1..ids' : r \in Deleted' \/ \E j \in IncidentIDs : report'[j].id = r
      <4> SUFFICES ASSUME NEW r \in 1..(ids + 1), r \notin Deleted
                   PROVE  \E j \in IncidentIDs : report'[j].id = r
        BY <2>2, <2>4, Zenon
      <4>1. CASE r = ids + 1
        BY <2>1, <3>2, <4>1, Zenon
      <4>2. CASE r # ids + 1
        <5>1. r \in 1..ids
          BY <4>2 DEF InvTyped
        <5>2. PICK j \in IncidentIDs : report[j].id = r
          BY <5>1, Zenon DEF IdsKnown
        <5>3. j # i
          BY <2>4, <5>1, <5>2, RowFacts, InvestigatorAssumption
        <5> QED
          BY <3>2, <5>2, <5>3, Zenon
      <4> QED
        BY <4>1, <4>2, Zenon
    <3>5. \A j \in IncidentIDs : report'[j] # NoRow => report'[j].id \in 1..ids'
      BY <2>1, <2>4, <3>2 DEF InvTyped, IdsKnown
    <3>6. \A r \in Reports : inv'[r] # Absent => r <= ids'
      BY <2>4, <3>3, RowFacts DEF InvTyped, IdsKnown
    <3> QED
      BY <2>2, <3>4, <3>5, <3>6, Zenon DEF IdsKnown
  <2> QED
    BY <1>15, <2>3, <2>4, Zenon DEF CreateSkipped
<1>16. ASSUME NEW q \in Requesters, CreatePending(q) PROVE IdsKnown'
  <2> DEFINE i == enq[q].inc
  <2>1. i \in IncidentIDs /\ enq[q] \in InvCalls
    BY <1>16, CallFields, Zenon DEF InvTyped, CreatePending
  <2>2. Deleting' = Deleting /\ Deleted' = Deleted /\ UNCHANGED forces
    BY <1>16, <2>1 DEF InvTyped, InvCalls, Resting, Deleting, Deleted, CreatePending, Returned
  <2>3. CASE ids' = ids /\ UNCHANGED <<report, inv>>
    BY <2>2, <2>3 DEF IdsKnown
  <2>4. CASE ids' = ids + 1 /\ report[i] = NoRow
    <3>1. report' = [report EXCEPT ![i] = NewRow("pending")]
      BY <1>16, <2>4, Zenon DEF InvTyped, CreatePending
    <3>2. report'[i].id = ids + 1 /\ \A j \in IncidentIDs \ {i} : report'[j] = report[j]
      BY <2>1, <3>1, Zenon DEF InvTyped, NewRow, NoRow
    <3>3. \A r \in Reports : inv'[r] # Absent => inv[r] # Absent \/ r = ids + 1
      BY <1>16, Zenon DEF InvTyped, CreatePending, Begun
    <3>4. \A r \in 1..ids' : r \in Deleted' \/ \E j \in IncidentIDs : report'[j].id = r
      <4> SUFFICES ASSUME NEW r \in 1..(ids + 1), r \notin Deleted
                   PROVE  \E j \in IncidentIDs : report'[j].id = r
        BY <2>2, <2>4
      <4>1. CASE r = ids + 1
        BY <2>1, <3>2, <4>1
      <4>2. CASE r # ids + 1
        <5>1. r \in 1..ids
          BY <4>2 DEF InvTyped
        <5>2. PICK j \in IncidentIDs : report[j].id = r
          BY <5>1 DEF IdsKnown
        <5>3. j # i
          BY <2>4, <5>1, <5>2, RowFacts, InvestigatorAssumption
        <5> QED
          BY <3>2, <5>2, <5>3
      <4> QED
        BY <4>1, <4>2
    <3>5. \A j \in IncidentIDs : report'[j] # NoRow => report'[j].id \in 1..ids'
      BY <2>1, <2>4, <3>2 DEF InvTyped, IdsKnown
    <3>6. \A r \in Reports : inv'[r] # Absent => r <= ids'
      BY <2>4, <3>3, RowFacts DEF InvTyped, IdsKnown
    <3> QED
      BY <2>2, <3>4, <3>5, <3>6 DEF IdsKnown
  <2> QED
    BY <1>16, <2>3, <2>4, Zenon DEF CreatePending
<1>17. ASSUME NEW q \in Requesters, CreateFails(q) PROVE IdsKnown'
  <2>1. Deleting' \subseteq Deleting
    BY <1>17, Zenon DEF InvTyped, InvCalls, Deleting, CreateFails, Returned
  <2>2. InvTyped'
    BY <1>17, InvTypedKept, Zenon DEF InvNext, InvProceeds, EnqueueStep
  <2> QED
    BY <1>17, <2>1, <2>2, IdsStep, Zenon DEF CreateFails
<1>18. ASSUME NEW r \in Reports, NEW ok \in BOOLEAN, WorkerEnds(r, ok) PROVE IdsKnown'
  <2>1. Deleting' = Deleting
    BY <1>18, Zenon DEF Deleting, WorkerEnds
  <2>2. InvTyped'
    BY <1>18, InvTypedKept, Zenon DEF InvNext, InvProceeds, RunStep
  <2> QED
    BY <1>18, <2>1, <2>2, IdsStep, SameRuns, ZenonT(30) DEF WorkerEnds
<1>19. ASSUME NEW r \in Reports, SpawnRefused(r) PROVE IdsKnown'
  <2>1. Deleting' = Deleting
    BY <1>19, Zenon DEF Deleting, SpawnRefused
  <2>2. InvTyped'
    BY <1>19, InvTypedKept, Zenon DEF InvNext, InvProceeds, RunStep
  <2> QED
    BY <1>19, <2>1, <2>2, IdsStep, SameRuns, Zenon DEF SpawnRefused
<1>20. ASSUME NEW r \in Reports, AttachWorker(r) PROVE IdsKnown'
  <2>1. Deleting' = Deleting
    BY <1>20, Zenon DEF Deleting, AttachWorker
  <2>2. InvTyped'
    BY <1>20, InvTypedKept, Zenon DEF InvNext, InvProceeds, RunStep
  <2> QED
    BY <1>20, <2>1, <2>2, IdsStep, StatusWrites, SameRuns, ZenonT(30) DEF AttachWorker
<1>21. ASSUME NEW r \in Reports, WriteOutcome(r) PROVE IdsKnown'
  <2>1. Deleting' = Deleting
    BY <1>21, Zenon DEF Deleting, WriteOutcome
  <2>2. InvTyped'
    BY <1>21, InvTypedKept, Zenon DEF InvNext, InvProceeds, RunStep
  <2> QED
    BY <1>21, <2>1, <2>2, IdsStep, StatusWrites, SameRuns, ZenonT(30) DEF WriteOutcome
<1>22. ASSUME NEW r \in Reports, RunEnds(r) PROVE IdsKnown'
  <2>1. Deleting' = Deleting
    BY <1>22, Zenon DEF Deleting, RunEnds
  <2>2. InvTyped'
    BY <1>22, InvTypedKept, Zenon DEF InvNext, InvProceeds, RunStep
  <2> QED
    BY <1>22, <2>1, <2>2, IdsStep, Zenon DEF RunEnds, InvTyped
<1>23. ASSUME NEW n \in Nodes, NodeDies(n) PROVE IdsKnown'
  <2>1. Deleting' \subseteq Deleting
    BY <1>23, Zenon DEF Deleting, NodeDies
  <2>2. InvTyped'
    BY <1>23, InvTypedKept, Zenon DEF InvNext
  <2> QED
    BY <1>23, <2>1, <2>2, IdsStep, Zenon DEF NodeDies
<1> QED
  BY <1>1, <1>2, <1>3, <1>4, <1>5, <1>6, <1>7, <1>8, <1>9, <1>10, <1>11, <1>12, <1>13, <1>14, <1>15,
      <1>16, <1>17, <1>18, <1>19, <1>20, <1>21, <1>22, <1>23, Zenon
     DEF InvNext, InvProceeds, EnqueueStep,
      RunStep

\* A run is of the report there is, or of one that was deleted.
LEMMA OneInvestigationKept ==
    ASSUME InvTyped, IdsKnown, OneInvestigation, [InvNext]_invVars PROVE OneInvestigation'
<1> USE InvestigatorAssumption, RowFacts DEF guards
<1>1. CASE UNCHANGED invVars
  BY <1>1, Zenon DEF InvTyped, OneInvestigation, LiveRuns, invVars
<1>2. ASSUME NEW q \in Requesters, NEW n \in Nodes, NEW i \in IncidentIDs, Fires(q, n, i) PROVE
    OneInvestigation'
  BY <1>2, Zenon DEF InvTyped, OneInvestigation, LiveRuns, Fires, Begins
<1>3. ASSUME NEW i \in IncidentIDs, FiresUnwired(i) PROVE OneInvestigation'
  BY <1>3, Zenon DEF InvTyped, OneInvestigation, LiveRuns, FiresUnwired, InvFault
<1>4. ASSUME NEW q \in Requesters, NEW n \in Nodes, NEW i \in IncidentIDs, ForceTrigger(q, n, i)
    PROVE OneInvestigation'
  BY <1>4, Zenon DEF InvTyped, OneInvestigation, LiveRuns, ForceTrigger, Begins
<1>5. ASSUME NEW q \in Requesters, NEW n \in Nodes, Starts(q, n) PROVE OneInvestigation'
  BY <1>5, StatusWrites, Zenon DEF InvTyped, OneInvestigation, LiveRuns, Starts
<1>6. ASSUME NEW q \in Requesters, ListUnstarted(q) PROVE OneInvestigation'
  BY <1>6, Zenon DEF InvTyped, OneInvestigation, LiveRuns, ListUnstarted
<1>7. ASSUME NEW q \in Requesters, NEW i \in enq[q].todo, NEW skip \in BOOLEAN, Backfill(q, i, skip)
    PROVE OneInvestigation'
  BY <1>7, Zenon DEF InvTyped, OneInvestigation, LiveRuns, Backfill
<1>8. ASSUME NEW q \in Requesters, BackfillEnds(q) PROVE OneInvestigation'
  BY <1>8, Zenon DEF InvTyped, OneInvestigation, LiveRuns, BackfillEnds
<1>9. ASSUME NEW q \in Requesters, StopPrior(q) PROVE OneInvestigation'
  BY <1>9 DEF InvTyped, OneInvestigation, LiveRuns, StopPrior
<1>10. ASSUME NEW q \in Requesters, DeletePrior(q) PROVE OneInvestigation'
  BY <1>10 DEF InvTyped, OneInvestigation, LiveRuns, DeletePrior
<1>11. ASSUME NEW q \in Requesters, DeletePriorFails(q) PROVE OneInvestigation'
  BY <1>11, Zenon DEF InvTyped, OneInvestigation, LiveRuns, DeletePriorFails, InvFault
<1>12. ASSUME NEW q \in Requesters, Unguard(q) PROVE OneInvestigation'
  BY <1>12, Zenon DEF InvTyped, OneInvestigation, LiveRuns, Unguard
<1>13. ASSUME NEW q \in Requesters, Gate(q) PROVE OneInvestigation'
  BY <1>13, Zenon DEF InvTyped, OneInvestigation, LiveRuns, Gate, Returned
<1>14. ASSUME NEW q \in Requesters, Permit(q) PROVE OneInvestigation'
  BY <1>14, Zenon DEF InvTyped, OneInvestigation, LiveRuns, Permit
<1>15. ASSUME NEW q \in Requesters, CreateSkipped(q) PROVE OneInvestigation'
  BY <1>15 DEF InvTyped, OneInvestigation, LiveRuns, CreateSkipped, InvFault, NewRow, Returned
<1>16. ASSUME NEW q \in Requesters, CreatePending(q) PROVE OneInvestigation'
  BY <1>16 DEF InvTyped, OneInvestigation, LiveRuns, CreatePending, NewRow, Begun, Returned
<1>17. ASSUME NEW q \in Requesters, CreateFails(q) PROVE OneInvestigation'
  BY <1>17, Zenon DEF InvTyped, OneInvestigation, LiveRuns, CreateFails, InvFault, Returned
<1>18. ASSUME NEW r \in Reports, NEW ok \in BOOLEAN, WorkerEnds(r, ok) PROVE OneInvestigation'
  BY <1>18 DEF InvTyped, OneInvestigation, LiveRuns, WorkerEnds
<1>19. ASSUME NEW r \in Reports, SpawnRefused(r) PROVE OneInvestigation'
  BY <1>19 DEF InvTyped, OneInvestigation, LiveRuns, SpawnRefused, InvFault
<1>20. ASSUME NEW r \in Reports, AttachWorker(r) PROVE OneInvestigation'
  BY <1>20, StatusWrites, SameRuns, ZenonT(30) DEF OneInvestigation, LiveRuns, AttachWorker
<1>21. ASSUME NEW r \in Reports, WriteOutcome(r) PROVE OneInvestigation'
  BY <1>21, StatusWrites, SameRuns, Zenon DEF OneInvestigation, LiveRuns, WriteOutcome
<1>22. ASSUME NEW r \in Reports, RunEnds(r) PROVE OneInvestigation'
  BY <1>22 DEF InvTyped, OneInvestigation, LiveRuns, RunEnds
<1>23. ASSUME NEW n \in Nodes, NodeDies(n) PROVE OneInvestigation'
  BY <1>23, Zenon DEF InvTyped, OneInvestigation, LiveRuns, NodeDies, InvFault
<1> QED
  BY <1>1, <1>2, <1>3, <1>4, <1>5, <1>6, <1>7, <1>8, <1>9, <1>10, <1>11, <1>12, <1>13, <1>14, <1>15,
      <1>16, <1>17, <1>18, <1>19, <1>20, <1>21, <1>22, <1>23, ZenonT(30)
     DEF InvNext, InvProceeds, EnqueueStep,
      RunStep

\* Only the write of its own goroutine makes a report ready.
LEMMA NotYetReadyKept ==
    ASSUME InvTyped, IdsKnown, NotYetReady, [InvNext]_invVars PROVE NotYetReady'
<1> USE InvestigatorAssumption, RowFacts DEF guards
<1>1. CASE UNCHANGED invVars
  BY <1>1, Zenon DEF InvTyped, IdsKnown, NotYetReady, invVars
<1>2. ASSUME NEW q \in Requesters, NEW n \in Nodes, NEW i \in IncidentIDs, Fires(q, n, i) PROVE
    NotYetReady'
  BY <1>2 DEF InvTyped, IdsKnown, NotYetReady, Fires, Begins
<1>3. ASSUME NEW i \in IncidentIDs, FiresUnwired(i) PROVE NotYetReady'
  BY <1>3, Zenon DEF InvTyped, IdsKnown, NotYetReady, FiresUnwired, InvFault
<1>4. ASSUME NEW q \in Requesters, NEW n \in Nodes, NEW i \in IncidentIDs, ForceTrigger(q, n, i)
    PROVE NotYetReady'
  BY <1>4 DEF InvTyped, IdsKnown, NotYetReady, ForceTrigger, Begins
<1>5. ASSUME NEW q \in Requesters, NEW n \in Nodes, Starts(q, n) PROVE NotYetReady'
  <2>1. \A i \in IncidentIDs : report'[i].id = report[i].id
    BY <1>5, StatusWrites, Zenon
  <2>2. \A i \in IncidentIDs : report'[i].status = "ready" => report[i].status = "ready"
    BY <1>5, HealedRows, Zenon
  <2>3. inv' = inv
    BY <1>5, Zenon DEF Starts
  <2> QED
    BY <2>1, <2>2, <2>3 DEF NotYetReady
<1>6. ASSUME NEW q \in Requesters, ListUnstarted(q) PROVE NotYetReady'
  BY <1>6, Zenon DEF InvTyped, IdsKnown, NotYetReady, ListUnstarted
<1>7. ASSUME NEW q \in Requesters, NEW i \in enq[q].todo, NEW skip \in BOOLEAN, Backfill(q, i, skip)
    PROVE NotYetReady'
  BY <1>7 DEF InvTyped, IdsKnown, NotYetReady, Backfill
<1>8. ASSUME NEW q \in Requesters, BackfillEnds(q) PROVE NotYetReady'
  BY <1>8, Zenon DEF InvTyped, IdsKnown, NotYetReady, BackfillEnds
<1>9. ASSUME NEW q \in Requesters, StopPrior(q) PROVE NotYetReady'
  BY <1>9 DEF InvTyped, IdsKnown, NotYetReady, StopPrior
<1>10. ASSUME NEW q \in Requesters, DeletePrior(q) PROVE NotYetReady'
  BY <1>10, Zenon DEF InvTyped, IdsKnown, NotYetReady, DeletePrior
<1>11. ASSUME NEW q \in Requesters, DeletePriorFails(q) PROVE NotYetReady'
  BY <1>11, Zenon DEF InvTyped, IdsKnown, NotYetReady, DeletePriorFails, InvFault
<1>12. ASSUME NEW q \in Requesters, Unguard(q) PROVE NotYetReady'
  BY <1>12, Zenon DEF InvTyped, IdsKnown, NotYetReady, Unguard
<1>13. ASSUME NEW q \in Requesters, Gate(q) PROVE NotYetReady'
  BY <1>13, Zenon DEF InvTyped, IdsKnown, NotYetReady, Gate, Returned
<1>14. ASSUME NEW q \in Requesters, Permit(q) PROVE NotYetReady'
  BY <1>14, Zenon DEF InvTyped, IdsKnown, NotYetReady, Permit
<1>15. ASSUME NEW q \in Requesters, CreateSkipped(q) PROVE NotYetReady'
  <2>1. /\ enq[q].inc \in IncidentIDs /\ UNCHANGED inv
        /\ \/ report' = [report EXCEPT ![enq[q].inc] = NewRow("skipped")]
           \/ report' = report
    BY <1>15, CallFields, Zenon DEF InvTyped, CreateSkipped
  <2>2. NewRow("skipped").status = "skipped"
    BY Zenon DEF NewRow, NoRow
  <2> QED
    BY <2>1, <2>2 DEF InvTyped, NotYetReady
<1>16. ASSUME NEW q \in Requesters, CreatePending(q) PROVE NotYetReady'
  BY <1>16 DEF InvTyped, IdsKnown, NotYetReady, CreatePending, NewRow, Begun, Returned
<1>17. ASSUME NEW q \in Requesters, CreateFails(q) PROVE NotYetReady'
  BY <1>17, Zenon DEF InvTyped, IdsKnown, NotYetReady, CreateFails, InvFault, Returned
<1>18. ASSUME NEW r \in Reports, NEW ok \in BOOLEAN, WorkerEnds(r, ok) PROVE NotYetReady'
  BY <1>18 DEF InvTyped, IdsKnown, NotYetReady, WorkerEnds
<1>19. ASSUME NEW r \in Reports, SpawnRefused(r) PROVE NotYetReady'
  BY <1>19 DEF InvTyped, IdsKnown, NotYetReady, SpawnRefused, InvFault
<1>20. ASSUME NEW r \in Reports, AttachWorker(r) PROVE NotYetReady'
  <2>1. /\ \A k \in Reports \ {r} : inv'[k] = inv[k]
        /\ inv[r].pc \in {"attach", "write"}
    BY <1>20, ZenonT(30) DEF InvTyped, AttachWorker
  <2>2. inv'[r].pc = "write"
    BY <1>20, Zenon DEF InvTyped, InvRuns, AttachWorker
  <2> QED
    BY <1>20, <2>1, <2>2, StatusWrites, AttachedRows DEF NotYetReady
<1>21. ASSUME NEW r \in Reports, WriteOutcome(r) PROVE NotYetReady'
  <2>1. /\ \A k \in Reports \ {r} : inv'[k] = inv[k]
        /\ inv[r].pc \in {"attach", "write"}
    BY <1>21, ZenonT(30) DEF InvTyped, WriteOutcome
  <2>2. inv'[r].pc = "defer"
    BY <1>21, Zenon DEF InvTyped, InvRuns, WriteOutcome
  <2> QED
    BY <1>21, <2>1, <2>2, StatusWrites, WrittenRows DEF NotYetReady
<1>22. ASSUME NEW r \in Reports, RunEnds(r) PROVE NotYetReady'
  BY <1>22 DEF InvTyped, IdsKnown, NotYetReady, RunEnds
<1>23. ASSUME NEW n \in Nodes, NodeDies(n) PROVE NotYetReady'
  BY <1>23, Zenon DEF InvTyped, IdsKnown, NotYetReady, NodeDies, InvFault
<1> QED
  BY <1>1, <1>2, <1>3, <1>4, <1>5, <1>6, <1>7, <1>8, <1>9, <1>10, <1>11, <1>12, <1>13, <1>14, <1>15,
      <1>16, <1>17, <1>18, <1>19, <1>20, <1>21, <1>22, <1>23, ZenonT(30)
     DEF InvNext, InvProceeds, EnqueueStep,
      RunStep

\* The answer in a report is of its own run.
LEMMA AnswerKept ==
    ASSUME InvTyped, AnswerOfItsRun, [InvNext]_invVars PROVE AnswerOfItsRun'
<1> USE InvestigatorAssumption, RowFacts DEF guards
<1>1. CASE UNCHANGED invVars
  BY <1>1, Zenon DEF InvTyped, AnswerOfItsRun, invVars
<1>2. ASSUME NEW q \in Requesters, NEW n \in Nodes, NEW i \in IncidentIDs, Fires(q, n, i) PROVE
    AnswerOfItsRun'
  BY <1>2, Zenon DEF InvTyped, AnswerOfItsRun, Fires, Begins
<1>3. ASSUME NEW i \in IncidentIDs, FiresUnwired(i) PROVE AnswerOfItsRun'
  BY <1>3, Zenon DEF InvTyped, AnswerOfItsRun, FiresUnwired, InvFault
<1>4. ASSUME NEW q \in Requesters, NEW n \in Nodes, NEW i \in IncidentIDs, ForceTrigger(q, n, i)
    PROVE AnswerOfItsRun'
  BY <1>4, Zenon DEF InvTyped, AnswerOfItsRun, ForceTrigger, Begins
<1>5. ASSUME NEW q \in Requesters, NEW n \in Nodes, Starts(q, n) PROVE AnswerOfItsRun'
  BY <1>5, StatusWrites, HealedRows, Zenon DEF InvTyped, AnswerOfItsRun, Starts
<1>6. ASSUME NEW q \in Requesters, ListUnstarted(q) PROVE AnswerOfItsRun'
  BY <1>6, Zenon DEF InvTyped, AnswerOfItsRun, ListUnstarted
<1>7. ASSUME NEW q \in Requesters, NEW i \in enq[q].todo, NEW skip \in BOOLEAN, Backfill(q, i, skip)
    PROVE AnswerOfItsRun'
  BY <1>7, Zenon DEF InvTyped, AnswerOfItsRun, Backfill
<1>8. ASSUME NEW q \in Requesters, BackfillEnds(q) PROVE AnswerOfItsRun'
  BY <1>8, Zenon DEF InvTyped, AnswerOfItsRun, BackfillEnds
<1>9. ASSUME NEW q \in Requesters, StopPrior(q) PROVE AnswerOfItsRun'
  BY <1>9, Zenon DEF InvTyped, AnswerOfItsRun, StopPrior
<1>10. ASSUME NEW q \in Requesters, DeletePrior(q) PROVE AnswerOfItsRun'
  BY <1>10, Zenon DEF InvTyped, AnswerOfItsRun, DeletePrior
<1>11. ASSUME NEW q \in Requesters, DeletePriorFails(q) PROVE AnswerOfItsRun'
  BY <1>11, Zenon DEF InvTyped, AnswerOfItsRun, DeletePriorFails, InvFault
<1>12. ASSUME NEW q \in Requesters, Unguard(q) PROVE AnswerOfItsRun'
  BY <1>12, Zenon DEF InvTyped, AnswerOfItsRun, Unguard
<1>13. ASSUME NEW q \in Requesters, Gate(q) PROVE AnswerOfItsRun'
  BY <1>13, Zenon DEF InvTyped, AnswerOfItsRun, Gate, Returned
<1>14. ASSUME NEW q \in Requesters, Permit(q) PROVE AnswerOfItsRun'
  BY <1>14, Zenon DEF InvTyped, AnswerOfItsRun, Permit
<1>15. ASSUME NEW q \in Requesters, CreateSkipped(q) PROVE AnswerOfItsRun'
  <2>1. /\ enq[q].inc \in IncidentIDs /\ UNCHANGED inv
        /\ \/ report' = [report EXCEPT ![enq[q].inc] = NewRow("skipped")]
           \/ report' = report
    BY <1>15, CallFields, Zenon DEF InvTyped, CreateSkipped
  <2>2. NewRow("skipped").status = "skipped"
    BY Zenon DEF NewRow, NoRow
  <2> QED
    BY <2>1, <2>2, Zenon DEF InvTyped, AnswerOfItsRun
<1>16. ASSUME NEW q \in Requesters, CreatePending(q) PROVE AnswerOfItsRun'
  BY <1>16 DEF InvTyped, AnswerOfItsRun, CreatePending, NewRow, Begun, Returned
<1>17. ASSUME NEW q \in Requesters, CreateFails(q) PROVE AnswerOfItsRun'
  BY <1>17, Zenon DEF InvTyped, AnswerOfItsRun, CreateFails, InvFault, Returned
<1>18. ASSUME NEW r \in Reports, NEW ok \in BOOLEAN, WorkerEnds(r, ok) PROVE AnswerOfItsRun'
  BY <1>18, Zenon DEF InvTyped, AnswerOfItsRun, WorkerEnds
<1>19. ASSUME NEW r \in Reports, SpawnRefused(r) PROVE AnswerOfItsRun'
  BY <1>19, Zenon DEF InvTyped, AnswerOfItsRun, SpawnRefused, InvFault
<1>20. ASSUME NEW r \in Reports, AttachWorker(r) PROVE AnswerOfItsRun'
  BY <1>20, StatusWrites, AttachedRows, Zenon DEF AnswerOfItsRun
<1>21. ASSUME NEW r \in Reports, WriteOutcome(r) PROVE AnswerOfItsRun'
  <2> SUFFICES ASSUME NEW i \in IncidentIDs, report'[i].status = "ready"
               PROVE  report'[i].by = report'[i].id
    BY Zenon DEF AnswerOfItsRun
  <2>1. report'[i].id = report[i].id
    BY <1>21, StatusWrites, Zenon
  <2>2. report'[i] = report[i] \/ (report[i].id = r /\ report'[i].by = r)
    BY <1>21, WrittenRows, Zenon
  <2> QED
    BY <2>1, <2>2, Zenon DEF AnswerOfItsRun
<1>22. ASSUME NEW r \in Reports, RunEnds(r) PROVE AnswerOfItsRun'
  BY <1>22, Zenon DEF InvTyped, AnswerOfItsRun, RunEnds
<1>23. ASSUME NEW n \in Nodes, NodeDies(n) PROVE AnswerOfItsRun'
  BY <1>23, Zenon DEF InvTyped, AnswerOfItsRun, NodeDies, InvFault
<1> QED
  BY <1>1, <1>2, <1>3, <1>4, <1>5, <1>6, <1>7, <1>8, <1>9, <1>10, <1>11, <1>12, <1>13, <1>14, <1>15,
      <1>16, <1>17, <1>18, <1>19, <1>20, <1>21, <1>22, <1>23, ZenonT(30)
     DEF InvNext, InvProceeds, EnqueueStep,
      RunStep

\* Who holds the permits of a process.
RunsAt(n) == {r \in Reports : inv[r] # Absent /\ inv[r].node = n}

CallsAt(n) == {q \in Requesters : enq[q].pc = "create" /\ enq[q].node = n}

\* They are finitely many.
LEMMA HoldersFinite ==
    ASSUME NEW n
    PROVE  /\ IsFiniteSet(RunsAt(n)) /\ Cardinality(RunsAt(n)) \in Nat
           /\ IsFiniteSet(CallsAt(n)) /\ Cardinality(CallsAt(n)) \in Nat
<1>1. RunsAt(n) \subseteq Reports /\ CallsAt(n) \subseteq Requesters
  BY Zenon DEF RunsAt, CallsAt
<1> QED
  BY <1>1, RowFacts, InvestigatorAssumption, FS_Subset, FS_CardinalityType, Zenon

\* PermitsPaired in those terms.
LEMMA PermitsForm ==
    PermitsPaired <=> \A n \in Nodes : sem[n] = Cardinality(RunsAt(n)) + Cardinality(CallsAt(n))
BY Zenon DEF PermitsPaired, RunsAt, CallsAt

\* A step that changes no holder and no count.
LEMMA PermitsSame ==
    ASSUME PermitsPaired, sem' = sem,
           \A n \in Nodes : RunsAt(n)' = RunsAt(n) /\ CallsAt(n)' = CallsAt(n)
    PROVE  PermitsPaired'
<1>1. \A n \in Nodes : sem'[n] = Cardinality(RunsAt(n)') + Cardinality(CallsAt(n)')
  BY PermitsForm, Zenon
<1> QED
  BY <1>1, Zenon DEF PermitsPaired, RunsAt, CallsAt

\* At one process the count changes with the holders.
LEMMA PermitsMove ==
    ASSUME InvTyped, PermitsPaired, NEW m \in Nodes, NEW d \in Int, sem' = [sem EXCEPT ![m] = @ + d],
           \A n \in Nodes \ {m} : RunsAt(n)' = RunsAt(n) /\ CallsAt(n)' = CallsAt(n),
           Cardinality(RunsAt(m)') + Cardinality(CallsAt(m)') =
             Cardinality(RunsAt(m)) + Cardinality(CallsAt(m)) + d
    PROVE  PermitsPaired'
<1>1. \A n \in Nodes : sem'[n] = Cardinality(RunsAt(n)') + Cardinality(CallsAt(n)')
  BY PermitsForm, Zenon DEF InvTyped
<1> QED
  BY <1>1, Zenon DEF PermitsPaired, RunsAt, CallsAt

\* A call that neither has a permit nor gets one.
LEMMA CallsSame ==
    ASSUME NEW q \in Requesters, \A x \in Requesters \ {q} : enq'[x] = enq[x],
           enq[q].pc # "create", enq'[q].pc # "create"
    PROVE  \A n \in Nodes : CallsAt(n)' = CallsAt(n)
BY Zenon DEF CallsAt

\* A call that begins anew.
LEMMA BegunCalls ==
    ASSUME NEW n, NEW i, NEW w
    PROVE  /\ [Resting EXCEPT !.pc = "list", !.node = n].pc = "list"
           /\ [Resting EXCEPT !.pc = "gate", !.node = n, !.inc = i].pc = "gate"
           /\ [Resting EXCEPT !.pc = "stop", !.node = n, !.inc = i, !.prior = w].pc = "stop"
BY Zenon DEF Resting

\* There is an id left for each row that may be created: a row stands for one id
\* and a manual trigger for another.
LEMMA IdLeft ==
    ASSUME InvTyped, IdsKnown, NEW i \in IncidentIDs, report[i] = NoRow PROVE ids + 1 \in Reports
<1> DEFINE Others == IncidentIDs \ {i}
           f == [j \in Others |-> report[j].id]
           T == {f[j] : j \in Others}
<1>1. IsFiniteSet(Others) /\ Cardinality(Others) = Cardinality(IncidentIDs) - 1
  BY InvestigatorAssumption, FS_RemoveElement, Zenon
<1>2. IsFiniteSet(T) /\ Cardinality(T) <= Cardinality(Others)
  <2>1. f \in Surjection(Others, T)
    BY Zenon DEF Surjection
  <2> QED
    BY <1>1, <2>1, FS_Surjection, Zenon
<1>3. 1..ids \subseteq T \cup Deleted
  <2> SUFFICES ASSUME NEW r \in 1..ids, r \notin Deleted PROVE r \in T
    BY Zenon
  <2>1. PICK j \in IncidentIDs : report[j].id = r
    BY Zenon DEF IdsKnown
  <2>2. j # i
    BY <2>1, RowFacts, InvestigatorAssumption
  <2> QED
    BY <2>1, <2>2, Zenon
<1> HIDE DEF T, Others
<1>4. /\ IsFiniteSet(Deleted) /\ Cardinality(Deleted) \in Nat /\ Cardinality(T) \in Nat
      /\ Cardinality(T \cap Deleted) \in Nat /\ IsFiniteSet(T \cup Deleted)
  BY <1>2, FS_Intersection, FS_CardinalityType, FS_Union, Zenon DEF IdsKnown
<1>5. Cardinality(T \cup Deleted) <= Cardinality(T) + Cardinality(Deleted)
  <2>1. Cardinality(T \cup Deleted) = Cardinality(T) + Cardinality(Deleted) - Cardinality(T \cap Deleted)
    BY <1>2, <1>4, FS_Union, Zenon
  <2> QED
    BY <1>4, <2>1
<1>6. Cardinality(1..ids) <= Cardinality(T \cup Deleted) /\ Cardinality(1..ids) = ids
  <2>1. ids \in Int /\ 1 \in Int /\ ids >= 0
    BY DEF InvTyped
  <2>2. Cardinality(1..ids) = ids
    BY <2>1, FS_Interval
  <2> QED
    BY <1>3, <1>4, <2>2, FS_Subset, Zenon
<1>7. Cardinality(Deleted) <= MaxForces
  BY <1>4, DeletingFinite, InvestigatorAssumption DEF InvTyped, IdsKnown
<1>8. Cardinality(IncidentIDs) \in Nat /\ Cardinality(T \cup Deleted) \in Nat /\ Cardinality(Others) \in Nat
  BY <1>1, <1>4, FS_CardinalityType, InvestigatorAssumption, Zenon
<1> QED
  BY <1>1, <1>2, <1>4, <1>5, <1>6, <1>7, <1>8, InvestigatorAssumption DEF InvTyped, Reports

\* A permit is taken and given back with what holds it.
LEMMA PermitsKept ==
    ASSUME InvTyped, IdsKnown, PermitsPaired, [InvNext]_invVars PROVE PermitsPaired'
<1> USE InvestigatorAssumption, RowFacts DEF guards
<1>1. CASE UNCHANGED invVars
  BY <1>1, ZenonT(30) DEF PermitsPaired, invVars
<1>2. ASSUME NEW q \in Requesters, NEW n \in Nodes, NEW i \in IncidentIDs, Fires(q, n, i) PROVE
    PermitsPaired'
  <2>1. /\ \A x \in Requesters \ {q} : enq'[x] = enq[x]
        /\ enq[q].pc # "create" /\ enq'[q].pc # "create"
    BY <1>2, BegunCalls DEF InvTyped, InvCalls, Fires, Begins
  <2>2. \A m \in Nodes : RunsAt(m)' = RunsAt(m)
    BY <1>2, Zenon DEF RunsAt, Fires
  <2> QED
    BY <1>2, <2>1, <2>2, CallsSame, PermitsSame, Zenon DEF Fires
<1>3. ASSUME NEW i \in IncidentIDs, FiresUnwired(i) PROVE PermitsPaired'
  <2>1. \A m \in Nodes : RunsAt(m)' = RunsAt(m) /\ CallsAt(m)' = CallsAt(m)
    BY <1>3, Zenon DEF RunsAt, CallsAt, FiresUnwired
  <2> QED
    BY <1>3, <2>1, PermitsSame, Zenon DEF FiresUnwired
<1>4. ASSUME NEW q \in Requesters, NEW n \in Nodes, NEW i \in IncidentIDs, ForceTrigger(q, n, i)
    PROVE PermitsPaired'
  <2>1. /\ \A x \in Requesters \ {q} : enq'[x] = enq[x]
        /\ enq[q].pc # "create" /\ enq'[q].pc # "create"
    BY <1>4, BegunCalls DEF InvTyped, InvCalls, ForceTrigger, Begins
  <2>2. \A m \in Nodes : RunsAt(m)' = RunsAt(m)
    BY <1>4, Zenon DEF RunsAt, ForceTrigger
  <2> QED
    BY <1>4, <2>1, <2>2, CallsSame, PermitsSame, Zenon DEF ForceTrigger
<1>5. ASSUME NEW q \in Requesters, NEW n \in Nodes, Starts(q, n) PROVE PermitsPaired'
  <2>1. /\ \A x \in Requesters \ {q} : enq'[x] = enq[x]
        /\ enq[q].pc # "create" /\ enq'[q].pc # "create"
    BY <1>5, BegunCalls DEF InvTyped, InvCalls, Starts, Begins
  <2>2. \A m \in Nodes : RunsAt(m)' = RunsAt(m)
    BY <1>5, Zenon DEF RunsAt, Starts
  <2> QED
    BY <1>5, <2>1, <2>2, CallsSame, PermitsSame, Zenon DEF Starts
<1>6. ASSUME NEW q \in Requesters, ListUnstarted(q) PROVE PermitsPaired'
  <2>1. /\ \A x \in Requesters \ {q} : enq'[x] = enq[x]
        /\ enq[q].pc # "create" /\ enq'[q].pc # "create"
    BY <1>6, Zenon DEF InvTyped, InvCalls, ListUnstarted
  <2>2. \A m \in Nodes : RunsAt(m)' = RunsAt(m)
    BY <1>6, Zenon DEF RunsAt, ListUnstarted
  <2> QED
    BY <1>6, <2>1, <2>2, CallsSame, PermitsSame, Zenon DEF ListUnstarted
<1>7. ASSUME NEW q \in Requesters, NEW i \in enq[q].todo, NEW skip \in BOOLEAN, Backfill(q, i, skip)
    PROVE PermitsPaired'
  <2>1. /\ \A x \in Requesters \ {q} : enq'[x] = enq[x]
        /\ enq[q].pc # "create" /\ enq'[q].pc # "create"
    BY <1>7 DEF InvTyped, InvCalls, Backfill
  <2>2. \A m \in Nodes : RunsAt(m)' = RunsAt(m)
    BY <1>7, Zenon DEF RunsAt, Backfill
  <2> QED
    BY <1>7, <2>1, <2>2, CallsSame, PermitsSame, ZenonT(30) DEF Backfill
<1>8. ASSUME NEW q \in Requesters, BackfillEnds(q) PROVE PermitsPaired'
  <2>1. /\ \A x \in Requesters \ {q} : enq'[x] = enq[x]
        /\ enq[q].pc # "create" /\ enq'[q].pc # "create"
    BY <1>8, Zenon DEF InvTyped, InvCalls, BackfillEnds
  <2>2. \A m \in Nodes : RunsAt(m)' = RunsAt(m)
    BY <1>8, Zenon DEF RunsAt, BackfillEnds
  <2> QED
    BY <1>8, <2>1, <2>2, CallsSame, PermitsSame, Zenon DEF BackfillEnds
<1>9. ASSUME NEW q \in Requesters, StopPrior(q) PROVE PermitsPaired'
  <2>1. /\ \A x \in Requesters \ {q} : enq'[x] = enq[x]
        /\ enq[q].pc # "create" /\ enq'[q].pc # "create"
    BY <1>9, Zenon DEF InvTyped, InvCalls, StopPrior
  <2>2. \A m \in Nodes : RunsAt(m)' = RunsAt(m)
    BY <1>9, SameRuns, Zenon DEF RunsAt, StopPrior
  <2> QED
    BY <1>9, <2>1, <2>2, CallsSame, PermitsSame, Zenon DEF StopPrior
<1>10. ASSUME NEW q \in Requesters, DeletePrior(q) PROVE PermitsPaired'
  <2>1. /\ \A x \in Requesters \ {q} : enq'[x] = enq[x]
        /\ enq[q].pc # "create" /\ enq'[q].pc # "create"
    BY <1>10 DEF InvTyped, InvCalls, DeletePrior
  <2>2. \A m \in Nodes : RunsAt(m)' = RunsAt(m)
    BY <1>10, Zenon DEF RunsAt, DeletePrior
  <2> QED
    BY <1>10, <2>1, <2>2, CallsSame, PermitsSame, Zenon DEF DeletePrior
<1>11. ASSUME NEW q \in Requesters, DeletePriorFails(q) PROVE PermitsPaired'
  <2>1. /\ \A x \in Requesters \ {q} : enq'[x] = enq[x]
        /\ enq[q].pc # "create" /\ enq'[q].pc # "create"
    BY <1>11 DEF InvTyped, InvCalls, DeletePriorFails
  <2>2. \A m \in Nodes : RunsAt(m)' = RunsAt(m)
    BY <1>11, Zenon DEF RunsAt, DeletePriorFails
  <2> QED
    BY <1>11, <2>1, <2>2, CallsSame, PermitsSame, Zenon DEF DeletePriorFails
<1>12. ASSUME NEW q \in Requesters, Unguard(q) PROVE PermitsPaired'
  <2>1. /\ \A x \in Requesters \ {q} : enq'[x] = enq[x]
        /\ enq[q].pc # "create" /\ enq'[q].pc # "create"
    BY <1>12 DEF InvTyped, InvCalls, Unguard
  <2>2. \A m \in Nodes : RunsAt(m)' = RunsAt(m)
    BY <1>12, Zenon DEF RunsAt, Unguard
  <2> QED
    BY <1>12, <2>1, <2>2, CallsSame, PermitsSame, Zenon DEF Unguard
<1>13. ASSUME NEW q \in Requesters, Gate(q) PROVE PermitsPaired'
  <2>1. /\ \A x \in Requesters \ {q} : enq'[x] = enq[x]
        /\ enq[q].pc # "create" /\ enq'[q].pc # "create"
    BY <1>13, ReturnedFact DEF InvTyped, InvCalls, Gate
  <2>2. \A m \in Nodes : RunsAt(m)' = RunsAt(m)
    BY <1>13, Zenon DEF RunsAt, Gate
  <2> QED
    BY <1>13, <2>1, <2>2, CallsSame, PermitsSame, Zenon DEF Gate
<1>14. ASSUME NEW q \in Requesters, Permit(q) PROVE PermitsPaired'
  <2>0. PICK m \in Nodes : m = enq[q].node
    BY <1>14, CallFields, ZenonT(30) DEF InvTyped, Permit
  <2>1. /\ enq[q].pc = "permit" /\ enq[q] \in InvCalls /\ UNCHANGED inv
        /\ \A x \in Requesters \ {q} : enq'[x] = enq[x]
    BY <1>14, <2>0, CallFields, Zenon DEF InvTyped, Permit
  <2>2. \A n \in Nodes : RunsAt(n)' = RunsAt(n)
    BY <2>1, Zenon DEF RunsAt
  <2>3. CASE sem[m] < MaxConcurrent
    <3>1. enq'[q].pc = "create" /\ enq'[q].node = m /\ sem' = [sem EXCEPT ![m] = @ + 1]
      BY <1>14, <2>0, <2>1, <2>3 DEF InvTyped, InvCalls, Permit
    <3>2. CallsAt(m)' = CallsAt(m) \cup {q} /\ q \notin CallsAt(m)
      BY <2>0, <2>1, <3>1, Zenon DEF CallsAt
    <3>3. \A n \in Nodes \ {m} : CallsAt(n)' = CallsAt(n)
      BY <2>0, <2>1, <3>1, Zenon DEF CallsAt
    <3>4. Cardinality(CallsAt(m)') = Cardinality(CallsAt(m)) + 1
      <4>1. IsFiniteSet(CallsAt(m))
        BY HoldersFinite, Zenon
      <4>2. Cardinality(CallsAt(m) \cup {q}) = Cardinality(CallsAt(m)) + 1
        BY <3>2, <4>1, FS_AddElement, ZenonT(30)
      <4> QED
        BY <3>2, <4>2, Zenon
    <3>5. Cardinality(RunsAt(m)') + Cardinality(CallsAt(m)') =
            Cardinality(RunsAt(m)) + Cardinality(CallsAt(m)) + 1
      BY <2>2, <3>4, HoldersFinite
    <3>6. \A n \in Nodes \ {m} : RunsAt(n)' = RunsAt(n) /\ CallsAt(n)' = CallsAt(n)
      BY <2>2, <3>3, Zenon
    <3>7. 1 \in Int /\ sem' = [sem EXCEPT ![m] = @ + 1]
      BY <3>1
    <3> QED
      BY <3>5, <3>6, <3>7, PermitsMove, Zenon
  <2>4. CASE ~(sem[m] < MaxConcurrent)
    <3>1. enq'[q].pc # "create" /\ sem' = sem
      BY <1>14, <2>0, <2>1, <2>4 DEF InvTyped, InvCalls, Permit
    <3> QED
      BY <2>1, <2>2, <3>1, CallsSame, PermitsSame, Zenon
  <2> QED
    BY <2>3, <2>4, Zenon
<1>15. ASSUME NEW q \in Requesters, CreateSkipped(q) PROVE PermitsPaired'
  <2>1. /\ \A x \in Requesters \ {q} : enq'[x] = enq[x]
        /\ enq[q].pc # "create" /\ enq'[q].pc # "create"
    BY <1>15, ReturnedFact, Zenon DEF InvTyped, InvCalls, CreateSkipped
  <2>2. \A m \in Nodes : RunsAt(m)' = RunsAt(m)
    BY <1>15, Zenon DEF RunsAt, CreateSkipped
  <2> QED
    BY <1>15, <2>1, <2>2, CallsSame, PermitsSame, Zenon DEF CreateSkipped
<1>16. ASSUME NEW q \in Requesters, CreatePending(q) PROVE PermitsPaired'
  <2>0. PICK m \in Nodes : m = enq[q].node
    BY <1>16, CallFields, Zenon DEF InvTyped, CreatePending
  <2>1. /\ enq[q].pc = "create" /\ enq[q].inc \in IncidentIDs
        /\ report[enq[q].inc] = NoRow /\ sem' = sem
        /\ \A x \in Requesters \ {q} : enq'[x] = enq[x]
    BY <1>16, <2>0, CallFields, ZenonT(30) DEF InvTyped, CreatePending
  <2>2. enq'[q].pc # "create"
    BY <1>16, ReturnedFact, Zenon DEF InvTyped, CreatePending
  <2>3. CallsAt(m)' = CallsAt(m) \ {q} /\ q \in CallsAt(m)
    BY <2>0, <2>1, <2>2, Zenon DEF CallsAt
  <2>4. \A n \in Nodes \ {m} : CallsAt(n)' = CallsAt(n)
    BY <2>0, <2>1, <2>2, Zenon DEF CallsAt
  <2>5. ids + 1 \in Reports /\ inv[ids + 1] = Absent
    BY <2>1, IdLeft DEF InvTyped, IdsKnown
  <2>6. /\ inv'[ids + 1] # Absent /\ inv'[ids + 1].node = m
        /\ \A x \in Reports \ {ids + 1} : inv'[x] = inv[x]
    BY <1>16, <2>0, <2>5, Zenon DEF InvTyped, CreatePending, Begun, Absent
  <2>7. RunsAt(m)' = RunsAt(m) \cup {ids + 1} /\ ids + 1 \notin RunsAt(m)
    BY <2>5, <2>6, Zenon DEF RunsAt
  <2>8. \A n \in Nodes \ {m} : RunsAt(n)' = RunsAt(n)
    BY <2>5, <2>6, Zenon DEF RunsAt
  <2>9. /\ Cardinality(RunsAt(m)') = Cardinality(RunsAt(m)) + 1
        /\ Cardinality(CallsAt(m)') = Cardinality(CallsAt(m)) - 1
    <3>1. IsFiniteSet(RunsAt(m)) /\ IsFiniteSet(CallsAt(m))
      BY HoldersFinite, Zenon
    <3>2. Cardinality(RunsAt(m) \cup {ids + 1}) = Cardinality(RunsAt(m)) + 1
      BY <2>7, <3>1, FS_AddElement, Zenon
    <3>3. Cardinality(CallsAt(m) \ {q}) = Cardinality(CallsAt(m)) - 1
      BY <2>3, <3>1, FS_RemoveElement, Zenon
    <3> QED
      BY <2>3, <2>7, <3>2, <3>3, Zenon
  <2>10. sem' = [sem EXCEPT ![m] = @ + 0]
    BY <2>1 DEF InvTyped
  <2>11. Cardinality(RunsAt(m)') + Cardinality(CallsAt(m)') =
           Cardinality(RunsAt(m)) + Cardinality(CallsAt(m)) + 0
    BY <2>9, HoldersFinite
  <2>12. \A n \in Nodes \ {m} : RunsAt(n)' = RunsAt(n) /\ CallsAt(n)' = CallsAt(n)
    BY <2>4, <2>8, Zenon
  <2>13. 0 \in Int
    OBVIOUS
  <2> QED
    BY <2>10, <2>11, <2>12, <2>13, PermitsMove, ZenonT(30)
<1>17. ASSUME NEW q \in Requesters, CreateFails(q) PROVE PermitsPaired'
  <2>0. PICK m \in Nodes : m = enq[q].node
    BY <1>17, CallFields, ZenonT(30) DEF InvTyped, CreateFails
  <2>1. /\ enq[q].pc = "create" /\ UNCHANGED inv /\ sem' = [sem EXCEPT ![m] = @ + (-1)]
        /\ \A x \in Requesters \ {q} : enq'[x] = enq[x]
    BY <1>17, <2>0, CallFields, ZenonT(30) DEF InvTyped, CreateFails
  <2>2. enq'[q].pc # "create"
    BY <1>17, ReturnedFact, Zenon DEF InvTyped, CreateFails
  <2>3. CallsAt(m)' = CallsAt(m) \ {q} /\ q \in CallsAt(m)
    BY <2>0, <2>1, <2>2, Zenon DEF CallsAt
  <2>4. \A n \in Nodes \ {m} : CallsAt(n)' = CallsAt(n)
    BY <2>0, <2>1, <2>2, Zenon DEF CallsAt
  <2>5. \A n \in Nodes : RunsAt(n)' = RunsAt(n)
    BY <2>1, Zenon DEF RunsAt
  <2>6. Cardinality(CallsAt(m)') = Cardinality(CallsAt(m)) - 1
    BY <2>3, HoldersFinite, FS_RemoveElement, Zenon
  <2>7. Cardinality(RunsAt(m)') + Cardinality(CallsAt(m)') =
          Cardinality(RunsAt(m)) + Cardinality(CallsAt(m)) + (-1)
    BY <2>5, <2>6, HoldersFinite
  <2>8. \A n \in Nodes \ {m} : RunsAt(n)' = RunsAt(n) /\ CallsAt(n)' = CallsAt(n)
    BY <2>4, <2>5, Zenon
  <2>9. -1 \in Int /\ sem' = [sem EXCEPT ![m] = @ + (-1)]
    BY <2>1
  <2> QED
    BY <2>7, <2>8, <2>9, PermitsMove, Zenon
<1>18. ASSUME NEW r \in Reports, NEW ok \in BOOLEAN, WorkerEnds(r, ok) PROVE PermitsPaired'
  <2>1. \A m \in Nodes : RunsAt(m)' = RunsAt(m) /\ CallsAt(m)' = CallsAt(m)
    BY <1>18, SameRuns, Zenon DEF RunsAt, CallsAt, WorkerEnds
  <2> QED
    BY <1>18, <2>1, PermitsSame, Zenon DEF WorkerEnds
<1>19. ASSUME NEW r \in Reports, SpawnRefused(r) PROVE PermitsPaired'
  <2>1. \A m \in Nodes : RunsAt(m)' = RunsAt(m) /\ CallsAt(m)' = CallsAt(m)
    BY <1>19, SameRuns, ZenonT(30) DEF RunsAt, CallsAt, SpawnRefused
  <2> QED
    BY <1>19, <2>1, PermitsSame, Zenon DEF SpawnRefused
<1>20. ASSUME NEW r \in Reports, AttachWorker(r) PROVE PermitsPaired'
  <2>1. \A m \in Nodes : RunsAt(m)' = RunsAt(m) /\ CallsAt(m)' = CallsAt(m)
    BY <1>20, SameRuns, ZenonT(30) DEF RunsAt, CallsAt, AttachWorker
  <2> QED
    BY <1>20, <2>1, PermitsSame, Zenon DEF AttachWorker
<1>21. ASSUME NEW r \in Reports, WriteOutcome(r) PROVE PermitsPaired'
  <2>1. \A m \in Nodes : RunsAt(m)' = RunsAt(m) /\ CallsAt(m)' = CallsAt(m)
    BY <1>21, SameRuns, ZenonT(30) DEF RunsAt, CallsAt, WriteOutcome
  <2> QED
    BY <1>21, <2>1, PermitsSame, ZenonT(30) DEF WriteOutcome
<1>22. ASSUME NEW r \in Reports, RunEnds(r) PROVE PermitsPaired'
  <2>0. PICK m \in Nodes : m = inv[r].node
    BY <1>22, RunFields, ZenonT(30) DEF InvTyped, RunEnds
  <2>1. inv[r] # Absent /\ UNCHANGED enq /\ sem' = [sem EXCEPT ![m] = @ + (-1)]
    BY <1>22, <2>0, RunFields, ZenonT(30) DEF InvTyped, RunEnds
  <2>2. inv'[r] = Absent /\ \A x \in Reports \ {r} : inv'[x] = inv[x]
    BY <1>22, Zenon DEF InvTyped, RunEnds
  <2>3. RunsAt(m)' = RunsAt(m) \ {r} /\ r \in RunsAt(m)
    BY <2>0, <2>1, <2>2, Zenon DEF RunsAt
  <2>4. \A n \in Nodes \ {m} : RunsAt(n)' = RunsAt(n)
    BY <2>0, <2>1, <2>2, Zenon DEF RunsAt
  <2>5. \A n \in Nodes : CallsAt(n)' = CallsAt(n)
    BY <2>1, Zenon DEF CallsAt
  <2>6. Cardinality(RunsAt(m)') = Cardinality(RunsAt(m)) - 1
    BY <2>3, HoldersFinite, FS_RemoveElement, ZenonT(30)
  <2>7. Cardinality(RunsAt(m)') + Cardinality(CallsAt(m)') =
          Cardinality(RunsAt(m)) + Cardinality(CallsAt(m)) + (-1)
    BY <2>5, <2>6, HoldersFinite
  <2>8. \A n \in Nodes \ {m} : RunsAt(n)' = RunsAt(n) /\ CallsAt(n)' = CallsAt(n)
    BY <2>4, <2>5, Zenon
  <2>9. -1 \in Int /\ sem' = [sem EXCEPT ![m] = @ + (-1)]
    BY <2>1
  <2> QED
    BY <2>7, <2>8, <2>9, PermitsMove, Zenon
<1>23. ASSUME NEW n \in Nodes, NodeDies(n) PROVE PermitsPaired'
  <2>1. RunsAt(n)' = {} /\ CallsAt(n)' = {}
    BY <1>23, Zenon DEF RunsAt, CallsAt, NodeDies
  <2>2. \A m \in Nodes \ {n} : RunsAt(m)' = RunsAt(m) /\ CallsAt(m)' = CallsAt(m)
    BY <1>23, Zenon DEF RunsAt, CallsAt, NodeDies
  <2>3. \A m \in Nodes : sem'[m] = IF m = n THEN 0 ELSE sem[m]
    BY <1>23, Zenon DEF InvTyped, NodeDies
  <2>4. \A m \in Nodes : sem'[m] = Cardinality(RunsAt(m)') + Cardinality(CallsAt(m)')
    <3>1. Cardinality({}) = 0
      BY FS_EmptySet, Zenon
    <3> QED
      BY <2>1, <2>2, <2>3, <3>1, PermitsForm
  <2> QED
    BY <2>4, Zenon DEF PermitsPaired, RunsAt, CallsAt
<1> QED
  BY <1>1, <1>2, <1>3, <1>4, <1>5, <1>6, <1>7, <1>8, <1>9, <1>10, <1>11, <1>12, <1>13, <1>14, <1>15,
      <1>16, <1>17, <1>18, <1>19, <1>20, <1>21, <1>22, <1>23, ZenonT(30)
     DEF InvNext, InvProceeds, EnqueueStep,
      RunStep

\* InvestigatorInv holds in every reachable state.
THEOREM InvestigatorInvariant == InvSpec => []InvestigatorInv
<1>1. InvInit => InvestigatorInv
  <2> SUFFICES ASSUME InvInit PROVE InvestigatorInv
    BY Zenon
  <2>1. InvTyped
    BY InvestigatorAssumption, RowFacts DEF InvInit, InvTyped
  <2>2. Deleted = {} /\ Deleting = {}
    BY Zenon DEF InvInit, Deleted, Deleting, Resting
  <2>3. IdsKnown
    BY <2>2, FS_EmptySet DEF InvInit, IdsKnown
  <2>4. OneInvestigation /\ NotYetReady /\ AnswerOfItsRun
    BY RowFacts, Zenon DEF InvInit, OneInvestigation, LiveRuns, NotYetReady, AnswerOfItsRun
  <2>5. \A n \in Nodes : RunsAt(n) = {} /\ CallsAt(n) = {}
    BY Zenon DEF InvInit, RunsAt, CallsAt, Resting
  <2>6. PermitsPaired
    BY <2>5, PermitsForm, FS_EmptySet DEF InvInit
  <2> QED
    BY <2>1, <2>3, <2>4, <2>6, Zenon DEF InvestigatorInv
<1>2. InvestigatorInv /\ [InvNext]_invVars => InvestigatorInv'
  BY InvTypedKept, IdsKept, OneInvestigationKept, NotYetReadyKept, AnswerKept, PermitsKept, Zenon
  DEF InvestigatorInv
<1> QED
  BY <1>1, <1>2, PTL DEF InvSpec

\* No path leaks a permit of the semaphore or gives one back twice.
THEOREM InvestigatorPermits == InvSpec => []PermitsPaired
<1>1. InvestigatorInv => PermitsPaired
  BY Zenon DEF InvestigatorInv
<1> QED
  BY <1>1, InvestigatorInvariant, PTL

\* An incident is investigated for the report it has, or for one a trigger deleted.
THEOREM InvestigatedOneByOne == InvSpec => []OneInvestigation
<1>1. InvestigatorInv => OneInvestigation
  BY Zenon DEF InvestigatorInv
<1> QED
  BY <1>1, InvestigatorInvariant, PTL

\* The answer in a report that is ready is of its own investigation.
THEOREM InvestigatorAnswers == InvSpec => []AnswerOfItsRun
<1>1. InvestigatorInv => AnswerOfItsRun
  BY Zenon DEF InvestigatorInv
<1> QED
  BY <1>1, InvestigatorInvariant, PTL

\* No restart and no slower goroutine takes back a report that is ready.
THEOREM InvestigatorReadyStays == InvSpec => ReadyStays
<1> DEFINE Stays == \A i \in IncidentIDs :
                      report[i].status = "ready" /\ report'[i].id = report[i].id =>
                          report'[i].status = "ready"
<1>1. InvestigatorInv /\ [InvNext]_invVars => [Stays]_invVars
  <2> SUFFICES ASSUME InvestigatorInv, InvNext, NEW i \in IncidentIDs, report[i].status = "ready",
                      report'[i].id = report[i].id
               PROVE  report'[i].status = "ready"
    BY Zenon
  <2> USE DEF InvestigatorInv
  <2>1. report[i] # NoRow /\ report[i].id \in Nat
    BY RowFacts, RowThere, Zenon DEF InvTyped
  <2>2. ASSUME NEW q \in Requesters, NEW n \in Nodes, Starts(q, n) PROVE report'[i].status = "ready"
    BY <2>2, HealedRows, Zenon
  <2>3. ASSUME NEW r \in Reports, AttachWorker(r) PROVE report'[i].status = "ready"
    BY <2>3, AttachedRows, ZenonT(30) DEF NotYetReady, AttachWorker
  <2>4. ASSUME NEW r \in Reports, WriteOutcome(r) PROVE report'[i].status = "ready"
    BY <2>4, WrittenRows, ZenonT(30) DEF NotYetReady, WriteOutcome
  <2>5. ASSUME NEW q \in Requesters, DeletePrior(q) PROVE report'[i].status = "ready"
    BY <2>1, <2>5, RowFacts, InvestigatorAssumption, Zenon DEF InvTyped, DeletePrior
  <2>6. ASSUME NEW q \in Requesters, CreateSkipped(q) \/ CreatePending(q)
        PROVE  report'[i].status = "ready"
    BY <2>1, <2>6, Zenon DEF InvTyped, CreateSkipped, CreatePending
  <2>7. CASE report' = report
    BY <2>7, Zenon
  <2>8. ASSUME NEW q \in Requesters,
               \/ ListUnstarted(q) \/ BackfillEnds(q) \/ StopPrior(q) \/ DeletePriorFails(q)
               \/ Unguard(q) \/ Gate(q) \/ Permit(q) \/ CreateFails(q)
               \/ \E j \in enq[q].todo, skip \in BOOLEAN : Backfill(q, j, skip)
        PROVE  report' = report
    BY <2>8, Zenon
       DEF ListUnstarted, Backfill, BackfillEnds, StopPrior, DeletePriorFails, Unguard, Gate,
       Permit, CreateFails
  <2>9. ASSUME NEW r \in Reports, \/ SpawnRefused(r) \/ RunEnds(r)
                                  \/ \E ok \in BOOLEAN : WorkerEnds(r, ok)
        PROVE  report' = report
    BY <2>9, Zenon DEF WorkerEnds, SpawnRefused, RunEnds
  <2>10. ASSUME \/ \E n \in Nodes : NodeDies(n)
                \/ \E j \in IncidentIDs : FiresUnwired(j)
                \/ \E q \in Requesters, n \in Nodes, j \in IncidentIDs :
                     Fires(q, n, j) \/ ForceTrigger(q, n, j)
         PROVE  report' = report
    BY <2>10, ZenonT(30) DEF NodeDies, FiresUnwired, Fires, ForceTrigger
  <2>11. CASE \E q \in Requesters : EnqueueStep(q)
    BY <2>5, <2>6, <2>7, <2>8, <2>11, ZenonT(30) DEF EnqueueStep
  <2>12. CASE \E r \in Reports : RunStep(r)
    BY <2>3, <2>4, <2>7, <2>9, <2>12, Zenon DEF RunStep
  <2> QED
    BY <2>2, <2>7, <2>10, <2>11, <2>12, Zenon DEF InvNext, InvProceeds
<1>2. InvSpec => [][Stays]_invVars
  BY <1>1, InvestigatorInvariant, PTL DEF InvSpec
<1> QED
  BY <1>2, Zenon DEF ReadyStays
=============================================================================
