--------------------------- MODULE ServiceProofs ---------------------------
(***************************************************************************)
(* Proofs about two services of a manager.  What the theorems say of       *)
(* AlertIncidents and AlertDelivery holds for any number of managers and   *)
(* series, and any retry budget; what they say of FlowEngine, for any set  *)
(* of graphs and any number of slots.                                      *)
(***************************************************************************)
EXTENDS AlertIncidents, AlertDelivery, FlowEngine, TLAPS

\* A tick works on keys it owns: what it has to record, and what it is about to
\* write, is in fired, and what it has to sweep is in the last snapshot.
Owned ==
    \A e \in Evaluators :
       /\ evaluator[e] = "idle" => fired[e] = {}
       /\ evaluator[e] = "record" => queue[e] \subseteq fired[e]
       /\ evaluator[e] = "write" => key[e] \in fired[e] /\ queue[e] \subseteq fired[e]
       /\ evaluator[e] \in {"sweep", "resolve"} => queue[e] \subseteq firingSnapshot[e]
       /\ evaluator[e] = "resolve" => key[e] \in firingSnapshot[e]

\* A row that was read is there: rows are not deleted.
Seen ==
    \A e \in Evaluators :
       /\ evaluator[e] = "write" /\ status[e] # "none" => incident[key[e]] # "none"
       /\ evaluator[e] = "resolve" => incident[key[e]] # "none"

\* The dispatches of an evaluator are behind the resolutions of the row once it
\* is resolved, and for who has read that it is.
Behind ==
    \A e \in Evaluators, k \in Series :
       /\ incident[k] = "none" => dispatched[e][k] = 0
       /\ dispatched[e][k] <= 1 + resolutions[k]
       /\ incident[k] = "resolved" => dispatched[e][k] <= resolutions[k]
       /\ evaluator[e] = "write" /\ key[e] = k /\ status[e] = "resolved"
             => dispatched[e][k] <= resolutions[k]

AlertInv == AlertTypeOK /\ Owned /\ Seen /\ ActiveIsTracked /\ InvestigatedOnce /\ Behind
-----------------------------------------------------------------------------
(* Incidents.                                                              *)

\* The key an idle evaluator shows is one of the series.
LEMMA AnySeriesFact == AnySeries \in Series
BY SeriesExist, Zenon DEF AnySeries

\* Every step keeps the types.
LEMMA AlertTypesKept ==
    ASSUME AlertTypeOK, [AlertNext]_alertVars PROVE AlertTypeOK'
<1> USE AlertAssumption, AnySeriesFact DEF world, tickLocals, history, bounds, At
<1>1. CASE UNCHANGED alertVars
  BY <1>1, Zenon DEF AlertTypeOK, Status, Active, EvalPC, alertVars
<1>2. ASSUME NEW k \in Series, SeriesTurns(k) PROVE AlertTypeOK'
  BY <1>2 DEF AlertTypeOK, Status, Active, EvalPC, SeriesTurns, Changes
<1>3. ASSUME RuleSwitched PROVE AlertTypeOK'
  BY <1>3 DEF AlertTypeOK, Status, Active, EvalPC, RuleSwitched, Changes
<1>4. ASSUME NEW k \in Series, NEW s \in Status, Operator(k, s) PROVE AlertTypeOK'
  BY <1>4 DEF AlertTypeOK, Status, Active, EvalPC, Operator, Changes, UpdateIncidentStatus
<1>5. ASSUME NEW e \in Evaluators, Query(e) PROVE AlertTypeOK'
  BY <1>5, Zenon DEF AlertTypeOK, Status, Active, EvalPC, Query
<1>6. ASSUME NEW e \in Evaluators, NEW k \in Series, GetFiring(e, k) PROVE AlertTypeOK'
  BY <1>6, Zenon DEF AlertTypeOK, Status, Active, EvalPC, GetFiring
<1>7. ASSUME NEW e \in Evaluators, Create(e) PROVE AlertTypeOK'
  BY <1>7 DEF AlertTypeOK, Status, Active, EvalPC, Create
<1>8. ASSUME NEW e \in Evaluators, LostRace(e) PROVE AlertTypeOK'
  BY <1>8, Zenon DEF AlertTypeOK, Status, Active, EvalPC, LostRace
<1>9. ASSUME NEW e \in Evaluators, Reopen(e) PROVE AlertTypeOK'
  BY <1>9 DEF AlertTypeOK, Status, Active, EvalPC, Reopen
<1>10. ASSUME NEW e \in Evaluators, Bump(e) PROVE AlertTypeOK'
  BY <1>10, Zenon DEF AlertTypeOK, Status, Active, EvalPC, Bump
<1>11. ASSUME NEW e \in Evaluators, RecordFails(e) PROVE AlertTypeOK'
  BY <1>11 DEF AlertTypeOK, Status, Active, EvalPC, RecordFails, AlertFault
<1>12. ASSUME NEW e \in Evaluators, BeginSweep(e) PROVE AlertTypeOK'
  BY <1>12, Zenon DEF AlertTypeOK, Status, Active, EvalPC, BeginSweep
<1>13. ASSUME NEW e \in Evaluators, NEW k \in Series, GetCleared(e, k) PROVE AlertTypeOK'
  BY <1>13, Zenon DEF AlertTypeOK, Status, Active, EvalPC, GetCleared
<1>14. ASSUME NEW e \in Evaluators, SystemResolve(e) PROVE AlertTypeOK'
  BY <1>14 DEF AlertTypeOK, Status, Active, EvalPC, SystemResolve, UpdateIncidentStatus
<1>15. ASSUME NEW e \in Evaluators, ResolveFails(e) PROVE AlertTypeOK'
  BY <1>15 DEF AlertTypeOK, Status, Active, EvalPC, ResolveFails, AlertFault
<1>16. ASSUME NEW e \in Evaluators, EndTick(e) PROVE AlertTypeOK'
  BY <1>16, Zenon DEF AlertTypeOK, Status, Active, EvalPC, EndTick
<1>17. ASSUME NEW e \in Evaluators, Restart(e) PROVE AlertTypeOK'
  BY <1>17 DEF AlertTypeOK, Status, Active, EvalPC, Restart, AlertFault
<1> QED
  BY <1>1, <1>2, <1>3, <1>4, <1>5, <1>6, <1>7, <1>8, <1>9, <1>10, <1>11, <1>12, <1>13, <1>14,
     <1>15, <1>16, <1>17, Zenon
     DEF AlertNext, EvalStep

\* A tick goes on working on keys it owns.
LEMMA OwnedKept ==
    ASSUME AlertTypeOK, Owned, [AlertNext]_alertVars PROVE Owned'
<1> USE AlertAssumption, AnySeriesFact DEF world, tickLocals, history, bounds, At
<1>1. CASE UNCHANGED alertVars
  BY <1>1, Zenon DEF AlertTypeOK, Owned, alertVars
<1>2. ASSUME NEW k \in Series, SeriesTurns(k) PROVE Owned'
  BY <1>2, Zenon DEF AlertTypeOK, Owned, SeriesTurns, Changes
<1>3. ASSUME RuleSwitched PROVE Owned'
  BY <1>3, Zenon DEF AlertTypeOK, Owned, RuleSwitched, Changes
<1>4. ASSUME NEW k \in Series, NEW s \in Status, Operator(k, s) PROVE Owned'
  BY <1>4, Zenon DEF AlertTypeOK, Owned, Operator, Changes, UpdateIncidentStatus
<1>5. ASSUME NEW e \in Evaluators, Query(e) PROVE Owned'
  BY <1>5, Zenon DEF AlertTypeOK, Owned, Query
<1>6. ASSUME NEW e \in Evaluators, NEW k \in Series, GetFiring(e, k) PROVE Owned'
  BY <1>6, Zenon DEF AlertTypeOK, Owned, GetFiring
<1>7. ASSUME NEW e \in Evaluators, Create(e) PROVE Owned'
  BY <1>7, Zenon DEF AlertTypeOK, Owned, Create
<1>8. ASSUME NEW e \in Evaluators, LostRace(e) PROVE Owned'
  BY <1>8, Zenon DEF AlertTypeOK, Owned, LostRace
<1>9. ASSUME NEW e \in Evaluators, Reopen(e) PROVE Owned'
  BY <1>9, Zenon DEF AlertTypeOK, Owned, Reopen
<1>10. ASSUME NEW e \in Evaluators, Bump(e) PROVE Owned'
  BY <1>10, Zenon DEF AlertTypeOK, Owned, Bump
<1>11. ASSUME NEW e \in Evaluators, RecordFails(e) PROVE Owned'
  BY <1>11, Zenon DEF AlertTypeOK, Owned, RecordFails, AlertFault
<1>12. ASSUME NEW e \in Evaluators, BeginSweep(e) PROVE Owned'
  BY <1>12, Zenon DEF AlertTypeOK, Owned, BeginSweep
<1>13. ASSUME NEW e \in Evaluators, NEW k \in Series, GetCleared(e, k) PROVE Owned'
  BY <1>13, Zenon DEF AlertTypeOK, Owned, GetCleared
<1>14. ASSUME NEW e \in Evaluators, SystemResolve(e) PROVE Owned'
  BY <1>14, Zenon DEF AlertTypeOK, Owned, SystemResolve, UpdateIncidentStatus
<1>15. ASSUME NEW e \in Evaluators, ResolveFails(e) PROVE Owned'
  BY <1>15, Zenon DEF AlertTypeOK, Owned, ResolveFails, AlertFault
<1>16. ASSUME NEW e \in Evaluators, EndTick(e) PROVE Owned'
  BY <1>16, Zenon DEF AlertTypeOK, Owned, EndTick
<1>17. ASSUME NEW e \in Evaluators, Restart(e) PROVE Owned'
  BY <1>17 DEF AlertTypeOK, Owned, Restart, AlertFault
<1> QED
  BY <1>1, <1>2, <1>3, <1>4, <1>5, <1>6, <1>7, <1>8, <1>9, <1>10, <1>11, <1>12, <1>13, <1>14,
     <1>15, <1>16, <1>17, Zenon
     DEF AlertNext, EvalStep

\* A row that was read stays.
LEMMA SeenKept ==
    ASSUME AlertTypeOK, Seen, [AlertNext]_alertVars PROVE Seen'
<1> USE AlertAssumption, AnySeriesFact DEF world, tickLocals, history, bounds, At
<1>1. CASE UNCHANGED alertVars
  BY <1>1, Zenon DEF AlertTypeOK, Seen, Active, Status, alertVars
<1>2. ASSUME NEW k \in Series, SeriesTurns(k) PROVE Seen'
  BY <1>2, Zenon DEF AlertTypeOK, Seen, Active, Status, SeriesTurns, Changes
<1>3. ASSUME RuleSwitched PROVE Seen'
  BY <1>3, Zenon DEF AlertTypeOK, Seen, Active, Status, RuleSwitched, Changes
<1>4. ASSUME NEW k \in Series, NEW s \in Status, Operator(k, s) PROVE Seen'
  BY <1>4, Zenon DEF AlertTypeOK, Seen, Active, Status, Operator, Changes, UpdateIncidentStatus
<1>5. ASSUME NEW e \in Evaluators, Query(e) PROVE Seen'
  BY <1>5, Zenon DEF AlertTypeOK, Seen, Active, Status, Query
<1>6. ASSUME NEW e \in Evaluators, NEW k \in Series, GetFiring(e, k) PROVE Seen'
  BY <1>6, Zenon DEF AlertTypeOK, Seen, Active, Status, GetFiring
<1>7. ASSUME NEW e \in Evaluators, Create(e) PROVE Seen'
  BY <1>7, Zenon DEF AlertTypeOK, Seen, Active, Status, Create
<1>8. ASSUME NEW e \in Evaluators, LostRace(e) PROVE Seen'
  BY <1>8, Zenon DEF AlertTypeOK, Seen, Active, Status, LostRace
<1>9. ASSUME NEW e \in Evaluators, Reopen(e) PROVE Seen'
  BY <1>9, Zenon DEF AlertTypeOK, Seen, Active, Status, Reopen
<1>10. ASSUME NEW e \in Evaluators, Bump(e) PROVE Seen'
  BY <1>10, Zenon DEF AlertTypeOK, Seen, Active, Status, Bump
<1>11. ASSUME NEW e \in Evaluators, RecordFails(e) PROVE Seen'
  BY <1>11, Zenon DEF AlertTypeOK, Seen, Active, Status, RecordFails, AlertFault
<1>12. ASSUME NEW e \in Evaluators, BeginSweep(e) PROVE Seen'
  BY <1>12, Zenon DEF AlertTypeOK, Seen, Active, Status, BeginSweep
<1>13. ASSUME NEW e \in Evaluators, NEW k \in Series, GetCleared(e, k) PROVE Seen'
  BY <1>13, Zenon DEF AlertTypeOK, Seen, Active, Status, GetCleared
<1>14. ASSUME NEW e \in Evaluators, SystemResolve(e) PROVE Seen'
  BY <1>14, Zenon DEF AlertTypeOK, Seen, Active, Status, SystemResolve, UpdateIncidentStatus
<1>15. ASSUME NEW e \in Evaluators, ResolveFails(e) PROVE Seen'
  BY <1>15, Zenon DEF AlertTypeOK, Seen, Active, Status, ResolveFails, AlertFault
<1>16. ASSUME NEW e \in Evaluators, EndTick(e) PROVE Seen'
  BY <1>16, Zenon DEF AlertTypeOK, Seen, Active, Status, EndTick
<1>17. ASSUME NEW e \in Evaluators, Restart(e) PROVE Seen'
  BY <1>17 DEF AlertTypeOK, Seen, Active, Status, Restart, AlertFault
<1> QED
  BY <1>1, <1>2, <1>3, <1>4, <1>5, <1>6, <1>7, <1>8, <1>9, <1>10, <1>11, <1>12, <1>13, <1>14,
     <1>15, <1>16, <1>17 DEF AlertNext, EvalStep

\* Tracking moves from fired to the snapshot at the end of a tick, and from the
\* snapshot through the queue to the key in hand, in the sweep.
LEMMA TrackedKept ==
    ASSUME AlertTypeOK, Owned, ActiveIsTracked, [AlertNext]_alertVars PROVE ActiveIsTracked'
<1> USE AlertAssumption, AnySeriesFact DEF world, tickLocals, history, bounds, At
<1>1. CASE UNCHANGED alertVars
  BY <1>1 DEF AlertTypeOK, Owned, ActiveIsTracked, Tracks, Active, EvalPC, Status, alertVars
<1>2. ASSUME NEW k \in Series, SeriesTurns(k) PROVE ActiveIsTracked'
  BY <1>2 DEF AlertTypeOK, Owned, ActiveIsTracked, Tracks, Active, EvalPC, Status, SeriesTurns,
         Changes
<1>3. ASSUME RuleSwitched PROVE ActiveIsTracked'
  BY <1>3 DEF AlertTypeOK, Owned, ActiveIsTracked, Tracks, Active, EvalPC, Status, RuleSwitched,
         Changes
<1>4. ASSUME NEW k \in Series, NEW s \in Status, Operator(k, s) PROVE ActiveIsTracked'
  BY <1>4 DEF AlertTypeOK, Owned, ActiveIsTracked, Tracks, Active, EvalPC, Status, Operator,
         Changes, UpdateIncidentStatus
<1>5. ASSUME NEW e \in Evaluators, Query(e) PROVE ActiveIsTracked'
  BY <1>5 DEF AlertTypeOK, Owned, ActiveIsTracked, Tracks, Active, EvalPC, Status, Query
<1>6. ASSUME NEW e \in Evaluators, NEW k \in Series, GetFiring(e, k) PROVE ActiveIsTracked'
  BY <1>6, Zenon DEF AlertTypeOK, Owned, ActiveIsTracked, Tracks, Active, EvalPC, Status, GetFiring
<1>7. ASSUME NEW e \in Evaluators, Create(e) PROVE ActiveIsTracked'
  BY <1>7, SMTT(30) DEF AlertTypeOK, Owned, ActiveIsTracked, Tracks, Active, EvalPC, Status, Create
<1>8. ASSUME NEW e \in Evaluators, LostRace(e) PROVE ActiveIsTracked'
  BY <1>8 DEF AlertTypeOK, Owned, ActiveIsTracked, Tracks, Active, EvalPC, Status, LostRace
<1>9. ASSUME NEW e \in Evaluators, Reopen(e) PROVE ActiveIsTracked'
  BY <1>9 DEF AlertTypeOK, Owned, ActiveIsTracked, Tracks, Active, EvalPC, Status, Reopen
<1>10. ASSUME NEW e \in Evaluators, Bump(e) PROVE ActiveIsTracked'
  BY <1>10, Zenon DEF AlertTypeOK, Owned, ActiveIsTracked, Tracks, Active, EvalPC, Status, Bump
<1>11. ASSUME NEW e \in Evaluators, RecordFails(e) PROVE ActiveIsTracked'
  BY <1>11 DEF AlertTypeOK, Owned, ActiveIsTracked, Tracks, Active, EvalPC, Status, RecordFails,
         AlertFault
<1>12. ASSUME NEW e \in Evaluators, BeginSweep(e) PROVE ActiveIsTracked'
  BY <1>12, Zenon
     DEF AlertTypeOK, Owned, ActiveIsTracked, Tracks, Active, EvalPC, Status, BeginSweep
<1>13. ASSUME NEW e \in Evaluators, NEW k \in Series, GetCleared(e, k) PROVE ActiveIsTracked'
  BY <1>13 DEF AlertTypeOK, Owned, ActiveIsTracked, Tracks, Active, EvalPC, Status, GetCleared
<1>14. ASSUME NEW e \in Evaluators, SystemResolve(e) PROVE ActiveIsTracked'
  <2> SUFFICES ASSUME NEW k \in Series, incident'[k] \in Active, k \notin loose'
               PROVE  \E f \in Evaluators : Tracks(f, k)'
    BY Zenon DEF ActiveIsTracked
  <2>1. k # key[e] /\ incident[k] \in Active /\ k \notin loose
    BY <1>14, Zenon DEF SystemResolve, UpdateIncidentStatus, AlertTypeOK, Active
  <2>2. PICK f \in Evaluators : Tracks(f, k)
    BY <2>1, Zenon DEF ActiveIsTracked
  <2>3. Tracks(f, k)'
    BY <1>14, <2>1, <2>2, Zenon DEF SystemResolve, AlertTypeOK, Tracks
  <2> QED
    BY <2>3, Zenon
<1>15. ASSUME NEW e \in Evaluators, ResolveFails(e) PROVE ActiveIsTracked'
  BY <1>15, SMTT(30) DEF AlertTypeOK, Owned, ActiveIsTracked, Tracks, Active, EvalPC, Status,
         ResolveFails, AlertFault
<1>16. ASSUME NEW e \in Evaluators, EndTick(e) PROVE ActiveIsTracked'
  BY <1>16 DEF AlertTypeOK, Owned, ActiveIsTracked, Tracks, Active, EvalPC, Status, EndTick
<1>17. ASSUME NEW e \in Evaluators, Restart(e) PROVE ActiveIsTracked'
  BY <1>17 DEF AlertTypeOK, Owned, ActiveIsTracked, Tracks, Active, EvalPC, Status, Restart,
         AlertFault
<1> QED
  BY <1>1, <1>2, <1>3, <1>4, <1>5, <1>6, <1>7, <1>8, <1>9, <1>10, <1>11, <1>12, <1>13, <1>14,
     <1>15, <1>16, <1>17, Zenon
     DEF AlertNext, EvalStep

\* Only the insert that found no row counts an investigation.
LEMMA InvestigatedKept ==
    ASSUME AlertTypeOK, Seen, InvestigatedOnce, [AlertNext]_alertVars PROVE InvestigatedOnce'
<1> USE AlertAssumption, AnySeriesFact DEF world, tickLocals, history, bounds, At
<1>1. CASE UNCHANGED alertVars
  BY <1>1, Zenon DEF AlertTypeOK, Seen, InvestigatedOnce, Active, alertVars
<1>2. ASSUME NEW k \in Series, SeriesTurns(k) PROVE InvestigatedOnce'
  BY <1>2, Zenon DEF AlertTypeOK, Seen, InvestigatedOnce, Active, SeriesTurns, Changes
<1>3. ASSUME RuleSwitched PROVE InvestigatedOnce'
  BY <1>3, Zenon DEF AlertTypeOK, Seen, InvestigatedOnce, Active, RuleSwitched, Changes
<1>4. ASSUME NEW k \in Series, NEW s \in Status, Operator(k, s) PROVE InvestigatedOnce'
  BY <1>4, Zenon
     DEF AlertTypeOK, Seen, InvestigatedOnce, Active, Operator, Changes, UpdateIncidentStatus
<1>5. ASSUME NEW e \in Evaluators, Query(e) PROVE InvestigatedOnce'
  BY <1>5, Zenon DEF AlertTypeOK, Seen, InvestigatedOnce, Active, Query
<1>6. ASSUME NEW e \in Evaluators, NEW k \in Series, GetFiring(e, k) PROVE InvestigatedOnce'
  BY <1>6, Zenon DEF AlertTypeOK, Seen, InvestigatedOnce, Active, GetFiring
<1>7. ASSUME NEW e \in Evaluators, Create(e) PROVE InvestigatedOnce'
  BY <1>7 DEF AlertTypeOK, Seen, InvestigatedOnce, Active, Create
<1>8. ASSUME NEW e \in Evaluators, LostRace(e) PROVE InvestigatedOnce'
  BY <1>8, Zenon DEF AlertTypeOK, Seen, InvestigatedOnce, Active, LostRace
<1>9. ASSUME NEW e \in Evaluators, Reopen(e) PROVE InvestigatedOnce'
  BY <1>9, Zenon DEF AlertTypeOK, Seen, InvestigatedOnce, Active, Reopen
<1>10. ASSUME NEW e \in Evaluators, Bump(e) PROVE InvestigatedOnce'
  BY <1>10, Zenon DEF AlertTypeOK, Seen, InvestigatedOnce, Active, Bump
<1>11. ASSUME NEW e \in Evaluators, RecordFails(e) PROVE InvestigatedOnce'
  BY <1>11, Zenon DEF AlertTypeOK, Seen, InvestigatedOnce, Active, RecordFails, AlertFault
<1>12. ASSUME NEW e \in Evaluators, BeginSweep(e) PROVE InvestigatedOnce'
  BY <1>12, Zenon DEF AlertTypeOK, Seen, InvestigatedOnce, Active, BeginSweep
<1>13. ASSUME NEW e \in Evaluators, NEW k \in Series, GetCleared(e, k) PROVE InvestigatedOnce'
  BY <1>13, Zenon DEF AlertTypeOK, Seen, InvestigatedOnce, Active, GetCleared
<1>14. ASSUME NEW e \in Evaluators, SystemResolve(e) PROVE InvestigatedOnce'
  BY <1>14, Zenon
     DEF AlertTypeOK, Seen, InvestigatedOnce, Active, SystemResolve, UpdateIncidentStatus
<1>15. ASSUME NEW e \in Evaluators, ResolveFails(e) PROVE InvestigatedOnce'
  BY <1>15, Zenon DEF AlertTypeOK, Seen, InvestigatedOnce, Active, ResolveFails, AlertFault
<1>16. ASSUME NEW e \in Evaluators, EndTick(e) PROVE InvestigatedOnce'
  BY <1>16, Zenon DEF AlertTypeOK, Seen, InvestigatedOnce, Active, EndTick
<1>17. ASSUME NEW e \in Evaluators, Restart(e) PROVE InvestigatedOnce'
  BY <1>17, Zenon DEF AlertTypeOK, Seen, InvestigatedOnce, Active, Restart, AlertFault
<1> QED
  BY <1>1, <1>2, <1>3, <1>4, <1>5, <1>6, <1>7, <1>8, <1>9, <1>10, <1>11, <1>12, <1>13, <1>14,
     <1>15, <1>16, <1>17 DEF AlertNext, EvalStep

\* A dispatch uses up what the last resolution allowed.
LEMMA BehindKept ==
    ASSUME AlertTypeOK, Behind, [AlertNext]_alertVars PROVE Behind'
<1> USE AlertAssumption, AnySeriesFact DEF world, tickLocals, history, bounds, At
<1>1. CASE UNCHANGED alertVars
  BY <1>1, Zenon DEF AlertTypeOK, Behind, Status, Active, alertVars
<1>2. ASSUME NEW k \in Series, SeriesTurns(k) PROVE Behind'
  BY <1>2, Zenon DEF AlertTypeOK, Behind, Status, Active, SeriesTurns, Changes
<1>3. ASSUME RuleSwitched PROVE Behind'
  BY <1>3, Zenon DEF AlertTypeOK, Behind, Status, Active, RuleSwitched, Changes
<1>4. ASSUME NEW k \in Series, NEW s \in Status, Operator(k, s) PROVE Behind'
  BY <1>4 DEF AlertTypeOK, Behind, Status, Active, Operator, Changes, UpdateIncidentStatus
<1>5. ASSUME NEW e \in Evaluators, Query(e) PROVE Behind'
  BY <1>5, Zenon DEF AlertTypeOK, Behind, Status, Active, Query
<1>6. ASSUME NEW e \in Evaluators, NEW k \in Series, GetFiring(e, k) PROVE Behind'
  BY <1>6, Zenon DEF AlertTypeOK, Behind, Status, Active, GetFiring
<1>7. ASSUME NEW e \in Evaluators, Create(e) PROVE Behind'
  BY <1>7 DEF AlertTypeOK, Behind, Status, Active, Create
<1>8. ASSUME NEW e \in Evaluators, LostRace(e) PROVE Behind'
  BY <1>8 DEF AlertTypeOK, Behind, Status, Active, LostRace
<1>9. ASSUME NEW e \in Evaluators, Reopen(e) PROVE Behind'
  BY <1>9 DEF AlertTypeOK, Behind, Status, Active, Reopen
<1>10. ASSUME NEW e \in Evaluators, Bump(e) PROVE Behind'
  BY <1>10, Zenon DEF AlertTypeOK, Behind, Status, Active, Bump
<1>11. ASSUME NEW e \in Evaluators, RecordFails(e) PROVE Behind'
  BY <1>11, Zenon DEF AlertTypeOK, Behind, Status, Active, RecordFails, AlertFault
<1>12. ASSUME NEW e \in Evaluators, BeginSweep(e) PROVE Behind'
  BY <1>12, Zenon DEF AlertTypeOK, Behind, Status, Active, BeginSweep
<1>13. ASSUME NEW e \in Evaluators, NEW k \in Series, GetCleared(e, k) PROVE Behind'
  BY <1>13, Zenon DEF AlertTypeOK, Behind, Status, Active, GetCleared
<1>14. ASSUME NEW e \in Evaluators, SystemResolve(e) PROVE Behind'
  BY <1>14 DEF AlertTypeOK, Behind, Status, Active, SystemResolve, UpdateIncidentStatus
<1>15. ASSUME NEW e \in Evaluators, ResolveFails(e) PROVE Behind'
  BY <1>15, Zenon DEF AlertTypeOK, Behind, Status, Active, ResolveFails, AlertFault
<1>16. ASSUME NEW e \in Evaluators, EndTick(e) PROVE Behind'
  BY <1>16, Zenon DEF AlertTypeOK, Behind, Status, Active, EndTick
<1>17. ASSUME NEW e \in Evaluators, Restart(e) PROVE Behind'
  BY <1>17, Zenon DEF AlertTypeOK, Behind, Status, Active, Restart, AlertFault
<1> QED
  BY <1>1, <1>2, <1>3, <1>4, <1>5, <1>6, <1>7, <1>8, <1>9, <1>10, <1>11, <1>12, <1>13, <1>14,
     <1>15, <1>16, <1>17 DEF AlertNext, EvalStep

\* AlertInv holds in every reachable state: each conjunct is kept by every step
\* with the help of the ones before it.
THEOREM AlertInvariant == AlertSpec => []AlertInv
<1>1. AlertInit => AlertInv
  BY AnySeriesFact, AlertAssumption
     DEF AlertInit, AlertInv, AlertTypeOK, Owned, Seen, ActiveIsTracked, InvestigatedOnce, Behind,
         Status, Active, EvalPC
<1>2. AlertInv /\ [AlertNext]_alertVars => AlertInv'
  BY AlertTypesKept, OwnedKept, SeenKept, TrackedKept, InvestigatedKept, BehindKept, Zenon
     DEF AlertInv
<1> QED
  BY <1>1, <1>2, PTL DEF AlertSpec

\* The incidents table and the evaluators keep their types.
THEOREM AlertTypes == AlertSpec => []AlertTypeOK
BY AlertInvariant, PTL DEF AlertInv

\* However many managers evaluate the rule, an incident that is not resolved is
\* in the memory of one of them unless it was cut loose.
THEOREM RecoveryTracked == AlertSpec => []ActiveIsTracked
BY AlertInvariant, PTL DEF AlertInv

\* An incident is investigated exactly once, whoever wins the race to create it.
THEOREM InvestigationOnce == AlertSpec => []InvestigatedOnce
BY AlertInvariant, PTL DEF AlertInv

\* An evaluator starts the workflows of an incident at most once more than the
\* incident was resolved.
THEOREM DispatchBounded == AlertSpec => []DispatchPerRecurrence
<1>1. AlertInv => DispatchPerRecurrence
  BY Zenon DEF AlertInv, Behind, DispatchPerRecurrence
<1> QED
  BY <1>1, AlertInvariant, PTL
-----------------------------------------------------------------------------
(* Deliveries.                                                             *)

\* The counts and places the two invariants speak of have their types.
Counts ==
    /\ attemptCount \in Nat
    /\ worker \in [Workers -> WorkerPC]
    /\ listed \in [Workers -> Nat]

DeliveryInv == Counts /\ FirstAttemptAlone /\ WithinBudget

\* The first attempt and the retries do not meet, and the budget is kept, in every
\* step.
LEMMA DeliveryKept ==
    ASSUME DeliveryInv, [DeliveryNext]_deliveryVars PROVE DeliveryInv'
<1> USE DeliveryAssumption DEF deliveryRow, firstVars, workerVars, gates, WorkerAt
<1>1. CASE UNCHANGED deliveryVars
  BY <1>1, Zenon DEF DeliveryInv, Counts, FirstAttemptAlone, WithinBudget, WorkerPC, deliveryVars
<1>2. ASSUME RecordDelivery PROVE DeliveryInv'
  BY <1>2 DEF DeliveryInv, Counts, FirstAttemptAlone, WithinBudget, WorkerPC, RecordDelivery
<1>3. ASSUME NEW err \in BOOLEAN, FirstSend(err) PROVE DeliveryInv'
  BY <1>3, Zenon DEF DeliveryInv, Counts, FirstAttemptAlone, WithinBudget, WorkerPC, FirstSend
<1>4. ASSUME FinishDelivery PROVE DeliveryInv'
  BY <1>4 DEF DeliveryInv, Counts, FirstAttemptAlone, WithinBudget, WorkerPC, FinishDelivery,
         UpdateDeliveryStatus
<1>5. ASSUME FirstLost PROVE DeliveryInv'
  BY <1>5, Zenon
     DEF DeliveryInv, Counts, FirstAttemptAlone, WithinBudget, WorkerPC, FirstLost, DeliveryFault
<1>6. ASSUME Ages PROVE DeliveryInv'
  BY <1>6, Zenon DEF DeliveryInv, Counts, FirstAttemptAlone, WithinBudget, WorkerPC, Ages
<1>7. ASSUME NEW w \in Workers, List(w) PROVE DeliveryInv'
  BY <1>7, Zenon DEF DeliveryInv, Counts, FirstAttemptAlone, WithinBudget, WorkerPC, List, Retriable
<1>8. ASSUME NEW w \in Workers, RetryMoot(w) PROVE DeliveryInv'
  BY <1>8 DEF DeliveryInv, Counts, FirstAttemptAlone, WithinBudget, WorkerPC, RetryMoot,
         UpdateDeliveryStatus, Back
<1>9. ASSUME NEW w \in Workers, StillOpen(w) PROVE DeliveryInv'
  BY <1>9, Zenon DEF DeliveryInv, Counts, FirstAttemptAlone, WithinBudget, WorkerPC, StillOpen
<1>10. ASSUME NEW w \in Workers, BurnBudget(w) PROVE DeliveryInv'
  BY <1>10 DEF DeliveryInv, Counts, FirstAttemptAlone, WithinBudget, WorkerPC, BurnBudget,
         UpdateDeliveryStatus, Back
<1>11. ASSUME NEW w \in Workers, Proceed(w) PROVE DeliveryInv'
  BY <1>11, Zenon DEF DeliveryInv, Counts, FirstAttemptAlone, WithinBudget, WorkerPC, Proceed
<1>12. ASSUME NEW w \in Workers, NEW err \in BOOLEAN, RetrySend(w, err) PROVE DeliveryInv'
  BY <1>12, Zenon DEF DeliveryInv, Counts, FirstAttemptAlone, WithinBudget, WorkerPC, RetrySend
<1>13. ASSUME NEW w \in Workers, RetryUpdate(w) PROVE DeliveryInv'
  BY <1>13 DEF DeliveryInv, Counts, FirstAttemptAlone, WithinBudget, WorkerPC, RetryUpdate,
         UpdateDeliveryStatus, Back, Counted
<1>14. ASSUME NEW w \in Workers, RetryLost(w) PROVE DeliveryInv'
  BY <1>14, Zenon
     DEF DeliveryInv, Counts, FirstAttemptAlone, WithinBudget, WorkerPC, RetryLost, Back, DeliveryFault
<1>15. ASSUME GatesTurn PROVE DeliveryInv'
  BY <1>15, Zenon
     DEF DeliveryInv, Counts, FirstAttemptAlone, WithinBudget, WorkerPC, GatesTurn, DeliveryFault
<1>16. ASSUME NEW w \in Workers, SkipDeleted(w) PROVE DeliveryInv'
  BY <1>16, Zenon
     DEF DeliveryInv, Counts, FirstAttemptAlone, WithinBudget, WorkerPC, SkipDeleted, Back
<1> QED
  BY <1>1, <1>2, <1>3, <1>4, <1>5, <1>6, <1>7, <1>8, <1>9, <1>10, <1>11, <1>12, <1>13, <1>14,
     <1>15, <1>16, Zenon
     DEF DeliveryNext, FirstStep, WorkerStep

\* The first attempt has its row to itself, for any number of retry workers.
THEOREM FirstAttemptOwnsRow == DeliverySpec => []FirstAttemptAlone
<1>1. DeliveryInit => DeliveryInv
  BY DeliveryAssumption DEF DeliveryInit, DeliveryInv, Counts, FirstAttemptAlone,
     WithinBudget, WorkerPC
<1>2. DeliveryInv => FirstAttemptAlone
  BY Zenon DEF DeliveryInv
<1> QED
  BY <1>1, <1>2, DeliveryKept, PTL DEF DeliverySpec

\* No worker goes over the retry budget it reads.
THEOREM BudgetKept == DeliverySpec => []WithinBudget
<1>1. DeliveryInit => DeliveryInv
  BY DeliveryAssumption DEF DeliveryInit, DeliveryInv, Counts, FirstAttemptAlone,
     WithinBudget, WorkerPC
<1>2. DeliveryInv => WithinBudget
  BY Zenon DEF DeliveryInv
<1> QED
  BY <1>1, <1>2, DeliveryKept, PTL DEF DeliverySpec

-----------------------------------------------------------------------------
(* The workflow engine.                                                    *)

\* The types the argument needs.
FlowTyped ==
    /\ runStatus \in {"none", "running", "succeeded", "failed"}
    /\ launch \subseteq FlowNodes
    /\ executed \subseteq FlowNodes
    /\ node \in [FlowNodes -> NodePC]
    /\ todo \in [FlowNodes -> SUBSET FlowNodes]
    /\ verdict \in {"none", "succeeded", "failed"}
    /\ ran \in [FlowNodes -> Nat]
    /\ outcome \in [FlowNodes -> {"none", "succeeded", "failed", "panicked"}]
    /\ nodeStatus \in [FlowNodes -> {"none", "running", "succeeded", "failed"}]
    /\ firedPort \in [FlowNodes -> Ports \cup {"none"}]

\* Goroutines live only while Execute does, and the verdict comes after it.
Stages ==
    /\ engine = "idle" =>
         /\ executed = {} /\ runFailed = FALSE
         /\ \A n \in FlowNodes : /\ node[n] = "idle" /\ ran[n] = 0
                                 /\ outcome[n] = "none" /\ nodeStatus[n] = "none"
    /\ engine # "execute" => \A n \in FlowNodes : node[n] \notin Live
    /\ engine \in {"idle", "execute"} => verdict = "none"
    /\ engine \in {"finalize", "ended"} => verdict # "none"
    /\ engine = "ended" => runStatus = verdict

\* executed is exactly the nodes with a goroutine, and only a node that has left
\* the queue for a slot was run.
Marked ==
    /\ \A n \in FlowNodes : ran[n] <= 1
    /\ engine = "execute" => \A n \in FlowNodes :
         /\ n \in executed <=> node[n] # "idle"
         /\ ran[n] = IF node[n] \in {"idle", "waiting"} THEN 0 ELSE 1

\* While Execute runs and has not failed, all that fired is executed or about to
\* be; a node that ended in order left no error unhandled, and one that has not
\* will fail the run.
Fired ==
    engine = "execute" =>
      /\ ~runFailed => Entries(graph, entry) \subseteq executed \cup launch
      /\ \A n \in FlowNodes :
           /\ node[n] \in {"idle", "waiting", "running"} => outcome[n] = "none"
           /\ node[n] = "panicked" => outcome[n] = "panicked"
           /\ node[n] = "failing" => Unhandled(n)
           /\ node[n] = "firing" => ~Unhandled(n)
           /\ node[n] = "done" /\ ~runFailed => ~Unhandled(n) /\ todo[n] = {}
           /\ node[n] \in {"firing", "done"} /\ ~runFailed =>
                EdgesFrom(graph, n, firedPort[n]) \subseteq executed \cup todo[n]
      /\ runFailed => \E n \in FlowNodes : node[n] = "done" /\ Unhandled(n)

\* The row of a node that has ended agrees with it, unless the save failed.
RowTells(n) == n \in unsaved \/ outcome[n] = "panicked" \/ nodeStatus[n] = outcome[n]

Rows ==
    engine = "execute" => \A n \in FlowNodes :
      /\ node[n] \in {"idle", "waiting"} => nodeStatus[n] = "none"
      /\ node[n] \in {"failing", "firing", "done"} => RowTells(n)

FlowInv == FlowTyped /\ Stages /\ Marked /\ Fired /\ Rows /\ VerdictHonest
-----------------------------------------------------------------------------

\* Every step keeps the types.
LEMMA FlowTypedKept ==
    ASSUME FlowTyped, [FlowNext]_flowVars PROVE FlowTyped'
<1> USE FlowAssumption DEF memory, records
<1>1. CASE UNCHANGED flowVars
  BY <1>1, Zenon DEF FlowTyped, NodePC, Entries, EdgesFrom, Ports, flowVars
<1>2. ASSUME TriggerRun PROVE FlowTyped'
  BY <1>2, Zenon DEF FlowTyped, NodePC, Entries, EdgesFrom, Ports, TriggerRun
<1>3. ASSUME NEW n \in FlowNodes, LaunchTrigger(n) PROVE FlowTyped'
  BY <1>3 DEF FlowTyped, NodePC, Entries, EdgesFrom, Ports, LaunchTrigger, Activate
<1>4. ASSUME NEW n \in FlowNodes, StartNode(n) PROVE FlowTyped'
  BY <1>4 DEF FlowTyped, NodePC, Entries, EdgesFrom, Ports, StartNode, CanFault
<1>5. ASSUME NEW n \in FlowNodes, NEW p \in Ports, NodeSucceeds(n, p) PROVE FlowTyped'
  BY <1>5, Zenon DEF FlowTyped, NodePC, Entries, EdgesFrom, Ports, NodeSucceeds, Fire, CanFault
<1>6. ASSUME NEW n \in FlowNodes, NodeErrs(n) PROVE FlowTyped'
  BY <1>6, Zenon DEF FlowTyped, NodePC, Entries, EdgesFrom, Ports, NodeErrs, Fire, CanFault
<1>7. ASSUME NEW n \in FlowNodes, NodePanics(n) PROVE FlowTyped'
  BY <1>7, Zenon DEF FlowTyped, NodePC, Entries, EdgesFrom, Ports, NodePanics
<1>8. ASSUME NEW n \in FlowNodes, FailRun(n) PROVE FlowTyped'
  BY <1>8, Zenon DEF FlowTyped, NodePC, Entries, EdgesFrom, Ports, FailRun
<1>9. ASSUME NEW n \in FlowNodes, NEW t \in FlowNodes, FireEdge(n, t) PROVE FlowTyped'
  BY <1>9 DEF FlowTyped, NodePC, Entries, EdgesFrom, Ports, FireEdge, Activate
<1>10. ASSUME NEW n \in FlowNodes, NodeEnds(n) PROVE FlowTyped'
  BY <1>10, Zenon DEF FlowTyped, NodePC, Entries, EdgesFrom, Ports, NodeEnds
<1>11. ASSUME ExecuteReturns PROVE FlowTyped'
  BY <1>11, Zenon DEF FlowTyped, NodePC, Entries, EdgesFrom, Ports, ExecuteReturns, Drained
<1>12. ASSUME Finalize PROVE FlowTyped'
  BY <1>12, Zenon DEF FlowTyped, NodePC, Entries, EdgesFrom, Ports, Finalize
<1>13. ASSUME FinalizeFails PROVE FlowTyped'
  BY <1>13, Zenon DEF FlowTyped, NodePC, Entries, EdgesFrom, Ports, FinalizeFails, CanFault
<1>14. ASSUME FlowCrash PROVE FlowTyped'
  BY <1>14, Zenon DEF FlowTyped, NodePC, Entries, EdgesFrom, Ports, FlowCrash, CanFault
<1>15. ASSUME Reboot PROVE FlowTyped'
  BY <1>15, Zenon DEF FlowTyped, NodePC, Entries, EdgesFrom, Ports, Reboot, Swept
<1>16. ASSUME BootElsewhere PROVE FlowTyped'
  BY <1>16, Zenon DEF FlowTyped, NodePC, Entries, EdgesFrom, Ports, BootElsewhere, CanFault, Swept
<1>17. ASSUME RebootUnswept PROVE FlowTyped'
  BY <1>17, Zenon DEF FlowTyped, NodePC, Entries, EdgesFrom, Ports, RebootUnswept, CanFault
<1> QED
  BY <1>1, <1>2, <1>3, <1>4, <1>5, <1>6, <1>7, <1>8, <1>9, <1>10, <1>11, <1>12, <1>13, <1>14,
     <1>15, <1>16, <1>17, Zenon
     DEF FlowNext, EngineStep, NodeStep

\* The stages of a run follow each other.
LEMMA StagesKept ==
    ASSUME FlowTyped, Stages, [FlowNext]_flowVars PROVE Stages'
<1> USE FlowAssumption DEF memory, records
<1>1. CASE UNCHANGED flowVars
  BY <1>1, Zenon DEF FlowTyped, Stages, Live, NodePC, flowVars
<1>2. ASSUME TriggerRun PROVE Stages'
  BY <1>2, Zenon DEF FlowTyped, Stages, Live, NodePC, TriggerRun
<1>3. ASSUME NEW n \in FlowNodes, LaunchTrigger(n) PROVE Stages'
  BY <1>3, Zenon DEF FlowTyped, Stages, Live, NodePC, LaunchTrigger, Activate
<1>4. ASSUME NEW n \in FlowNodes, StartNode(n) PROVE Stages'
  BY <1>4, Zenon DEF FlowTyped, Stages, Live, NodePC, StartNode, CanFault
<1>5. ASSUME NEW n \in FlowNodes, NEW p \in Ports, NodeSucceeds(n, p) PROVE Stages'
  BY <1>5, Zenon DEF FlowTyped, Stages, Live, NodePC, NodeSucceeds, Fire, CanFault
<1>6. ASSUME NEW n \in FlowNodes, NodeErrs(n) PROVE Stages'
  BY <1>6, Zenon DEF FlowTyped, Stages, Live, NodePC, NodeErrs, Fire, CanFault
<1>7. ASSUME NEW n \in FlowNodes, NodePanics(n) PROVE Stages'
  BY <1>7, Zenon DEF FlowTyped, Stages, Live, NodePC, NodePanics
<1>8. ASSUME NEW n \in FlowNodes, FailRun(n) PROVE Stages'
  BY <1>8, Zenon DEF FlowTyped, Stages, Live, NodePC, FailRun
<1>9. ASSUME NEW n \in FlowNodes, NEW t \in FlowNodes, FireEdge(n, t) PROVE Stages'
  BY <1>9, Zenon DEF FlowTyped, Stages, Live, NodePC, FireEdge, Activate
<1>10. ASSUME NEW n \in FlowNodes, NodeEnds(n) PROVE Stages'
  BY <1>10, Zenon DEF FlowTyped, Stages, Live, NodePC, NodeEnds
<1>11. ASSUME ExecuteReturns PROVE Stages'
  BY <1>11, Zenon DEF FlowTyped, Stages, Live, NodePC, ExecuteReturns, Drained
<1>12. ASSUME Finalize PROVE Stages'
  BY <1>12, Zenon DEF FlowTyped, Stages, Live, NodePC, Finalize
<1>13. ASSUME FinalizeFails PROVE Stages'
  BY <1>13, Zenon DEF FlowTyped, Stages, Live, NodePC, FinalizeFails, CanFault
<1>14. ASSUME FlowCrash PROVE Stages'
  BY <1>14, Zenon DEF FlowTyped, Stages, Live, NodePC, FlowCrash, CanFault
<1>15. ASSUME Reboot PROVE Stages'
  BY <1>15, Zenon DEF FlowTyped, Stages, Live, NodePC, Reboot, Swept
<1>16. ASSUME BootElsewhere PROVE Stages'
  BY <1>16, Zenon DEF FlowTyped, Stages, Live, NodePC, BootElsewhere, CanFault, Swept
<1>17. ASSUME RebootUnswept PROVE Stages'
  BY <1>17, Zenon DEF FlowTyped, Stages, Live, NodePC, RebootUnswept, CanFault
<1> QED
  BY <1>1, <1>2, <1>3, <1>4, <1>5, <1>6, <1>7, <1>8, <1>9, <1>10, <1>11, <1>12, <1>13, <1>14,
     <1>15, <1>16, <1>17, Zenon
     DEF FlowNext, EngineStep, NodeStep

\* A node is activated once.
LEMMA MarkedKept ==
    ASSUME FlowTyped, Stages, Marked, [FlowNext]_flowVars PROVE Marked'
<1> USE FlowAssumption DEF memory, records
<1>1. CASE UNCHANGED flowVars
  BY <1>1, Zenon DEF FlowTyped, Stages, Marked, Live, NodePC, flowVars
<1>2. ASSUME TriggerRun PROVE Marked'
  BY <1>2, Zenon DEF FlowTyped, Stages, Marked, Live, NodePC, TriggerRun
<1>3. ASSUME NEW n \in FlowNodes, LaunchTrigger(n) PROVE Marked'
  BY <1>3 DEF FlowTyped, Stages, Marked, Live, NodePC, LaunchTrigger, Activate
<1>4. ASSUME NEW n \in FlowNodes, StartNode(n) PROVE Marked'
  BY <1>4 DEF FlowTyped, Stages, Marked, Live, NodePC, StartNode, CanFault
<1>5. ASSUME NEW n \in FlowNodes, NEW p \in Ports, NodeSucceeds(n, p) PROVE Marked'
  BY <1>5, Zenon DEF FlowTyped, Stages, Marked, Live, NodePC, NodeSucceeds, Fire, CanFault
<1>6. ASSUME NEW n \in FlowNodes, NodeErrs(n) PROVE Marked'
  BY <1>6, Zenon DEF FlowTyped, Stages, Marked, Live, NodePC, NodeErrs, Fire, CanFault
<1>7. ASSUME NEW n \in FlowNodes, NodePanics(n) PROVE Marked'
  BY <1>7, Zenon DEF FlowTyped, Stages, Marked, Live, NodePC, NodePanics
<1>8. ASSUME NEW n \in FlowNodes, FailRun(n) PROVE Marked'
  BY <1>8, Zenon DEF FlowTyped, Stages, Marked, Live, NodePC, FailRun
<1>9. ASSUME NEW n \in FlowNodes, NEW t \in FlowNodes, FireEdge(n, t) PROVE Marked'
  BY <1>9 DEF FlowTyped, Stages, Marked, Live, NodePC, FireEdge, Activate
<1>10. ASSUME NEW n \in FlowNodes, NodeEnds(n) PROVE Marked'
  BY <1>10, Zenon DEF FlowTyped, Stages, Marked, Live, NodePC, NodeEnds
<1>11. ASSUME ExecuteReturns PROVE Marked'
  BY <1>11, Zenon DEF FlowTyped, Stages, Marked, Live, NodePC, ExecuteReturns, Drained
<1>12. ASSUME Finalize PROVE Marked'
  BY <1>12, Zenon DEF FlowTyped, Stages, Marked, Live, NodePC, Finalize
<1>13. ASSUME FinalizeFails PROVE Marked'
  BY <1>13, Zenon DEF FlowTyped, Stages, Marked, Live, NodePC, FinalizeFails, CanFault
<1>14. ASSUME FlowCrash PROVE Marked'
  BY <1>14, Zenon DEF FlowTyped, Stages, Marked, Live, NodePC, FlowCrash, CanFault
<1>15. ASSUME Reboot PROVE Marked'
  BY <1>15, Zenon DEF FlowTyped, Stages, Marked, Live, NodePC, Reboot, Swept
<1>16. ASSUME BootElsewhere PROVE Marked'
  BY <1>16, Zenon DEF FlowTyped, Stages, Marked, Live, NodePC, BootElsewhere, CanFault, Swept
<1>17. ASSUME RebootUnswept PROVE Marked'
  BY <1>17, Zenon DEF FlowTyped, Stages, Marked, Live, NodePC, RebootUnswept, CanFault
<1> QED
  BY <1>1, <1>2, <1>3, <1>4, <1>5, <1>6, <1>7, <1>8, <1>9, <1>10, <1>11, <1>12, <1>13, <1>14,
     <1>15, <1>16, <1>17, Zenon
     DEF FlowNext, EngineStep, NodeStep

\* What fired is followed up.
LEMMA FiredKept ==
    ASSUME FlowTyped, Stages, Marked, Fired, [FlowNext]_flowVars PROVE Fired'
<1> USE FlowAssumption DEF memory, records
<1>1. CASE UNCHANGED flowVars
  BY <1>1, Zenon DEF FlowTyped, Stages, Marked, Fired, Unhandled, Live, NodePC, flowVars
<1>2. ASSUME TriggerRun PROVE Fired'
  BY <1>2, Zenon DEF FlowTyped, Stages, Marked, Fired, Unhandled, Live, NodePC, TriggerRun
<1>3. ASSUME NEW n \in FlowNodes, LaunchTrigger(n) PROVE Fired'
  BY <1>3 DEF FlowTyped, Stages, Marked, Fired, Unhandled, Live, NodePC, LaunchTrigger, Activate
<1>4. ASSUME NEW n \in FlowNodes, StartNode(n) PROVE Fired'
  BY <1>4 DEF FlowTyped, Stages, Marked, Fired, Unhandled, Live, NodePC, StartNode, CanFault
<1>5. ASSUME NEW n \in FlowNodes, NEW p \in Ports, NodeSucceeds(n, p) PROVE Fired'
  BY <1>5, ZenonT(30)
     DEF FlowTyped, Stages, Marked, Fired, Unhandled, Live, NodePC, NodeSucceeds, Fire, CanFault
<1>6. ASSUME NEW n \in FlowNodes, NodeErrs(n) PROVE Fired'
  BY <1>6 DEF FlowTyped, Stages, Marked, Fired, Unhandled, Live, NodePC, NodeErrs, Fire, CanFault
<1>7. ASSUME NEW n \in FlowNodes, NodePanics(n) PROVE Fired'
  BY <1>7 DEF FlowTyped, Stages, Marked, Fired, Unhandled, Live, NodePC, NodePanics
<1>8. ASSUME NEW n \in FlowNodes, FailRun(n) PROVE Fired'
  BY <1>8 DEF FlowTyped, Stages, Marked, Fired, Unhandled, Live, NodePC, FailRun
<1>9. ASSUME NEW n \in FlowNodes, NEW t \in FlowNodes, FireEdge(n, t) PROVE Fired'
  BY <1>9, SMTT(30) DEF FlowTyped, Stages, Marked, Fired, Unhandled, Live, NodePC, FireEdge,
         Activate
<1>10. ASSUME NEW n \in FlowNodes, NodeEnds(n) PROVE Fired'
  BY <1>10 DEF FlowTyped, Stages, Marked, Fired, Unhandled, Live, NodePC, NodeEnds
<1>11. ASSUME ExecuteReturns PROVE Fired'
  BY <1>11, ZenonT(30)
     DEF FlowTyped, Stages, Marked, Fired, Unhandled, Live, NodePC, ExecuteReturns, Drained
<1>12. ASSUME Finalize PROVE Fired'
  BY <1>12, Zenon DEF FlowTyped, Stages, Marked, Fired, Unhandled, Live, NodePC, Finalize
<1>13. ASSUME FinalizeFails PROVE Fired'
  BY <1>13, Zenon
     DEF FlowTyped, Stages, Marked, Fired, Unhandled, Live, NodePC, FinalizeFails, CanFault
<1>14. ASSUME FlowCrash PROVE Fired'
  BY <1>14, Zenon DEF FlowTyped, Stages, Marked, Fired, Unhandled, Live, NodePC, FlowCrash, CanFault
<1>15. ASSUME Reboot PROVE Fired'
  BY <1>15, Zenon DEF FlowTyped, Stages, Marked, Fired, Unhandled, Live, NodePC, Reboot, Swept
<1>16. ASSUME BootElsewhere PROVE Fired'
  BY <1>16 DEF FlowTyped, Stages, Marked, Fired, Unhandled, Live, NodePC, BootElsewhere, CanFault,
         Swept
<1>17. ASSUME RebootUnswept PROVE Fired'
  BY <1>17 DEF FlowTyped, Stages, Marked, Fired, Unhandled, Live, NodePC, RebootUnswept, CanFault
<1> QED
  BY <1>1, <1>2, <1>3, <1>4, <1>5, <1>6, <1>7, <1>8, <1>9, <1>10, <1>11, <1>12, <1>13, <1>14,
     <1>15, <1>16, <1>17, Zenon
     DEF FlowNext, EngineStep, NodeStep

\* A row is written at the start of its node and at its end, and nowhere else.
LEMMA RowsKept ==
    ASSUME FlowTyped, Stages, Marked, Fired, Rows, [FlowNext]_flowVars PROVE Rows'
<1> USE FlowAssumption DEF memory, records
<1>1. ASSUME UNCHANGED <<engine, node, records>> PROVE Rows'
  BY <1>1, Zenon DEF Rows, RowTells
<1>2. ASSUME engine' # "execute" PROVE Rows'
  BY <1>2, Zenon DEF Rows
<1>3. ASSUME TriggerRun PROVE Rows'
  BY <1>3, Zenon DEF FlowTyped, Stages, Rows, RowTells, TriggerRun
<1>4. ASSUME NEW n \in FlowNodes, LaunchTrigger(n) PROVE Rows'
  BY <1>4, SMTT(30) DEF FlowTyped, Marked, Rows, RowTells, LaunchTrigger, Activate
<1>5. ASSUME NEW n \in FlowNodes, StartNode(n) PROVE Rows'
  BY <1>5, SMTT(30) DEF FlowTyped, Rows, RowTells, StartNode, CanFault
<1>6. ASSUME NEW n \in FlowNodes, NEW p \in Ports, NodeSucceeds(n, p) PROVE Rows'
  BY <1>6, SMTT(30) DEF FlowTyped, Rows, RowTells, NodeSucceeds, Fire, CanFault
<1>7. ASSUME NEW n \in FlowNodes, NodeErrs(n) PROVE Rows'
  BY <1>7, SMTT(30) DEF FlowTyped, Rows, RowTells, NodeErrs, Fire, CanFault
<1>8. ASSUME NEW n \in FlowNodes, NodePanics(n) PROVE Rows'
  BY <1>8, Zenon DEF FlowTyped, Rows, RowTells, NodePanics
<1>9. ASSUME NEW n \in FlowNodes, FailRun(n) PROVE Rows'
  BY <1>9, Zenon DEF FlowTyped, Fired, Rows, RowTells, FailRun
<1>10. ASSUME NEW n \in FlowNodes, NEW t \in FlowNodes, FireEdge(n, t) PROVE Rows'
  BY <1>10, SMTT(30) DEF FlowTyped, Marked, Rows, RowTells, FireEdge, Activate
<1>11. ASSUME NEW n \in FlowNodes, NodeEnds(n) PROVE Rows'
  BY <1>11, SMTT(30) DEF FlowTyped, Rows, RowTells, NodeEnds
<1>12. ASSUME UNCHANGED flowVars \/ BootElsewhere PROVE UNCHANGED <<engine, node, records>>
  BY <1>12, Zenon DEF flowVars, BootElsewhere
<1>13. ASSUME ExecuteReturns \/ Finalize \/ FinalizeFails \/ FlowCrash \/ Reboot \/ RebootUnswept
       PROVE  engine' # "execute"
  BY <1>13, Zenon DEF ExecuteReturns, Finalize, FinalizeFails, FlowCrash, Reboot, RebootUnswept
<1> QED
  BY <1>1, <1>2, <1>3, <1>4, <1>5, <1>6, <1>7, <1>8, <1>9, <1>10, <1>11, <1>12, <1>13, Zenon
     DEF FlowNext, EngineStep, NodeStep

\* The verdict is honest when it is given, and what it speaks of stays.
LEMMA HonestKept ==
    ASSUME FlowTyped, Stages, Marked, Fired, Rows, VerdictHonest, [FlowNext]_flowVars
    PROVE  VerdictHonest'
<1> USE FlowAssumption DEF memory, records
<1>1. ASSUME UNCHANGED <<graph, entry, verdict, records>> PROVE VerdictHonest'
  BY <1>1 DEF VerdictHonest, Unhandled, Entries, EdgesFrom
<1>2. ASSUME verdict' = "none" PROVE VerdictHonest'
  BY <1>2, Zenon DEF VerdictHonest
<1>3. ASSUME ExecuteReturns PROVE VerdictHonest'
  <2>1. /\ engine = "execute" /\ launch = {} /\ UNCHANGED <<graph, entry, records>>
        /\ verdict' = IF runFailed THEN "failed" ELSE "succeeded"
    BY <1>3, Zenon DEF ExecuteReturns
  <2>2. \A n \in FlowNodes : node[n] \in {"idle", "done"}
    BY <1>3, Zenon DEF ExecuteReturns, Drained, FlowTyped, NodePC, Live
  <2>3. \A n \in FlowNodes : /\ n \in executed <=> ran[n] = 1
                             /\ ran[n] = 1 <=> node[n] = "done"
    BY <2>1, <2>2 DEF Marked
  <2>4. ASSUME ~runFailed
        PROVE  /\ \A n \in Entries(graph, entry) : ran[n] = 1
               /\ \A n \in FlowNodes : ran[n] = 1 =>
                    /\ ~Unhandled(n)
                    /\ \A t \in EdgesFrom(graph, n, firedPort[n]) : ran[t] = 1
    <3>1. Entries(graph, entry) \subseteq executed /\ executed \subseteq FlowNodes
      BY <2>1, <2>4, Zenon DEF Fired, FlowTyped
    <3>2. \A n \in FlowNodes : ran[n] = 1 =>
            ~Unhandled(n) /\ EdgesFrom(graph, n, firedPort[n]) \subseteq executed
      BY <2>1, <2>3, <2>4, Zenon DEF Fired
    <3> QED
      BY <2>3, <3>1, <3>2, Zenon
  <2>5. runFailed => \E n \in FlowNodes : ran[n] = 1 /\ Unhandled(n)
    BY <2>1, <2>3, Zenon DEF Fired
  <2>6. \A n \in FlowNodes : RowTells(n)
    BY <2>1, <2>2, Zenon DEF Rows, Fired, RowTells
  <2> QED
    BY <2>1, <2>4, <2>5, <2>6 DEF VerdictHonest, RowTells, Unhandled, Entries, EdgesFrom
<1>4. ASSUME NEW n \in FlowNodes,
             StartNode(n) \/ NodeErrs(n) \/ NodePanics(n) \/ \E p \in Ports : NodeSucceeds(n, p)
      PROVE  verdict' = "none"
  <2>1. node[n] \in Live /\ verdict' = verdict
    BY <1>4, Zenon DEF StartNode, NodeErrs, NodePanics, NodeSucceeds, Fire, Live
  <2> QED
    BY <2>1, Zenon DEF Stages
<1>5. ASSUME \/ UNCHANGED flowVars \/ TriggerRun \/ Finalize \/ FinalizeFails
             \/ FlowCrash \/ Reboot \/ RebootUnswept \/ BootElsewhere
      PROVE  UNCHANGED <<graph, entry, verdict, records>>
  BY <1>5, Zenon DEF flowVars, TriggerRun, Finalize, FinalizeFails, FlowCrash, Reboot,
     RebootUnswept, BootElsewhere
<1>6. ASSUME NEW n \in FlowNodes, \/ LaunchTrigger(n) \/ FailRun(n) \/ NodeEnds(n)
                                  \/ \E t \in FlowNodes : FireEdge(n, t)
      PROVE  UNCHANGED <<graph, entry, verdict, records>>
  BY <1>6, Zenon DEF LaunchTrigger, FailRun, NodeEnds, FireEdge
<1> QED
  BY <1>1, <1>2, <1>3, <1>4, <1>5, <1>6, Zenon DEF FlowNext, EngineStep, NodeStep

\* FlowInv holds in every reachable state.
THEOREM FlowInvariant == FlowSpec => []FlowInv
<1>1. FlowInit => FlowInv
  BY DEF FlowInit, FlowInv, FlowTyped, Stages, Marked, Fired, Rows, VerdictHonest, Live,
         NodePC, Ports
<1>2. FlowInv /\ [FlowNext]_flowVars => FlowInv'
  BY FlowTypedKept, StagesKept, MarkedKept, FiredKept, RowsKept, HonestKept, Zenon DEF FlowInv
<1> QED
  BY <1>1, <1>2, PTL DEF FlowSpec

\* However the branches of any graph interleave, no node is run twice.
THEOREM FlowExecutedOnce == FlowSpec => []ExecutedOnce
<1>1. FlowInv => ExecutedOnce
  BY Zenon DEF FlowInv, Marked, ExecutedOnce
<1> QED
  BY <1>1, FlowInvariant, PTL

\* A verdict of success covers all that fired, and one of failure has a cause; the
\* rows tell the same, but for the nodes whose last save failed and those that
\* panicked.
THEOREM FlowVerdictHonest == FlowSpec => []VerdictHonest
<1>1. FlowInv => VerdictHonest
  BY Zenon DEF FlowInv
<1> QED
  BY <1>1, FlowInvariant, PTL

\* No goroutine of a run is left when Execute has returned.
THEOREM FlowNodesEnd == FlowSpec => []NoNodeOutlivesRun
<1>1. FlowInv => NoNodeOutlivesRun
  BY Zenon DEF FlowInv, FlowTyped, Stages, NoNodeOutlivesRun
<1> QED
  BY <1>1, FlowInvariant, PTL

\* A saved verdict is what the row says, whatever boots elsewhere sweep.
THEOREM FlowVerdictLands == FlowSpec => []VerdictLands
<1>1. FlowInv => VerdictLands
  BY Zenon DEF FlowInv, Stages, VerdictLands
<1> QED
  BY <1>1, FlowInvariant, PTL
=============================================================================
