--------------------------- MODULE AlertDelivery ---------------------------
(***************************************************************************)
(* One notification_deliveries row (internal/manager/biz/alert): the first *)
(* attempt MaybeNotify makes between RecordDelivery and FinishDelivery,    *)
(* and the RetryWorker of every manager, which re-sends failed rows with   *)
(* no claim on them.                                                       *)
(*                                                                         *)
(* A retry is cut at what another worker can come between: the list of     *)
(* rows, the reading of the incident, that of the channel, the send, and   *)
(* the unconditional update of the row.                                    *)
(***************************************************************************)
EXTENDS Integers

CONSTANTS
    Workers,            \* managers; each runs one RetryWorker
    RetryAttempts,      \* MaxAttempts of the worker, 5 in main.go
    MaxDeliveryFaults   \* bound: deaths of processes, failed statements, turns of the gates

ASSUME DeliveryAssumption ==
    /\ RetryAttempts \in Nat \ {0}
    /\ MaxDeliveryFaults \in Nat

VARIABLES
    delivery,       \* status of the row, "none" before RecordDelivery
    attemptCount,   \* its attempt_count
    aged,           \* finished_at is as old as the backoff asks
    first,          \* where the first attempt is
    firstErr,       \* its send failed
    worker,         \* where each worker is
    listed,         \* the attempt_count in the row it listed
    sendErr,        \* its send failed
    openIncident,   \* the incident is not resolved
    channel,        \* the channel: enabled, disabled or soft-deleted
    deliveryFaults

deliveryRow  == <<delivery, attemptCount, aged>>
firstVars    == <<first, firstErr>>
workerVars   == <<worker, listed, sendErr>>
gates        == <<openIncident, channel>>
deliveryVars == <<deliveryRow, firstVars, workerVars, gates, deliveryFaults>>

FirstPC  == {"idle", "send", "finish", "done", "dead"}

WorkerPC == {"idle", "retry", "channel", "send", "update"}

Channel  == {"enabled", "disabled", "deleted"}

DeliveryInit ==
    /\ delivery = "none"
    /\ attemptCount = 0
    /\ aged = FALSE
    /\ first = "idle"
    /\ firstErr = FALSE
    /\ worker = [w \in Workers |-> "idle"]
    /\ listed = [w \in Workers |-> 0]
    /\ sendErr = [w \in Workers |-> FALSE]
    /\ openIncident = TRUE
    /\ channel = "enabled"
    /\ deliveryFaults = 0

\* The row needs no more retries.
Settled(s, n) == s = "success" \/ (s = "failed" /\ n >= RetryAttempts)

DeliveryFault ==
    /\ deliveryFaults < MaxDeliveryFaults
    /\ deliveryFaults' = deliveryFaults + 1

\* UpdateDeliveryStatus: unconditional.
UpdateDeliveryStatus(s, n) ==
    /\ delivery' = s
    /\ attemptCount' = n
    /\ aged' = FALSE

-----------------------------------------------------------------------------
(* The first attempt.                                                      *)

RecordDelivery ==
    /\ first = "idle"
    /\ first' = "send"
    /\ delivery' = "pending"
    /\ attemptCount' = 1
    /\ UNCHANGED <<aged, firstErr, workerVars, gates, deliveryFaults>>

FirstSend(err) ==
    /\ first = "send"
    /\ first' = "finish"
    /\ firstErr' = err
    /\ UNCHANGED <<deliveryRow, workerVars, gates, deliveryFaults>>

FinishDelivery ==
    /\ first = "finish"
    /\ first' = "done"
    /\ UpdateDeliveryStatus(IF firstErr THEN "failed" ELSE "success", 1)
    /\ UNCHANGED <<firstErr, workerVars, gates, deliveryFaults>>

\* The process dies, or the update fails: the row stays pending.
FirstLost ==
    /\ first \in {"send", "finish"}
    /\ DeliveryFault
    /\ first' = "dead"
    /\ UNCHANGED <<deliveryRow, firstErr, workerVars, gates>>

-----------------------------------------------------------------------------
(* The retry workers.                                                      *)

\* ListRetriableDeliveries, with the linear backoff of retryOne.
Retriable == delivery = "failed" /\ attemptCount < RetryAttempts /\ aged

Ages ==
    /\ delivery = "failed"
    /\ ~aged
    /\ aged' = TRUE
    /\ UNCHANGED <<delivery, attemptCount, firstVars, workerVars, gates, deliveryFaults>>

WorkerAt(w, p) == worker' = [worker EXCEPT ![w] = p]

List(w) ==
    /\ worker[w] = "idle"
    /\ Retriable
    /\ WorkerAt(w, "retry")
    /\ listed' = [listed EXCEPT ![w] = attemptCount]
    /\ UNCHANGED <<deliveryRow, firstVars, sendErr, gates, deliveryFaults>>

\* A worker has done with the row: its locals as they were.
Back(w) ==
    /\ WorkerAt(w, "idle")
    /\ listed' = [listed EXCEPT ![w] = 0]
    /\ sendErr' = [sendErr EXCEPT ![w] = FALSE]

\* The incident is resolved: the row is closed without a send.
RetryMoot(w) ==
    /\ worker[w] = "retry"
    /\ ~openIncident
    /\ UpdateDeliveryStatus("success", listed[w] + 1)
    /\ Back(w)
    /\ UNCHANGED <<firstVars, gates, deliveryFaults>>

\* The incident is open.
StillOpen(w) ==
    /\ worker[w] = "retry"
    /\ openIncident
    /\ WorkerAt(w, "channel")
    /\ UNCHANGED <<deliveryRow, firstVars, listed, sendErr, gates, deliveryFaults>>

\* The channel is disabled: the budget is burnt.
BurnBudget(w) ==
    /\ worker[w] = "channel"
    /\ channel = "disabled"
    /\ UpdateDeliveryStatus("failed", RetryAttempts)
    /\ Back(w)
    /\ UNCHANGED <<firstVars, gates, deliveryFaults>>

\* The channel is deleted: its look-up finds nothing, now and on every later
\* tick, and the row is left as it is.
SkipDeleted(w) ==
    /\ worker[w] = "channel"
    /\ channel = "deleted"
    /\ Back(w)
    /\ UNCHANGED <<deliveryRow, firstVars, gates, deliveryFaults>>

Proceed(w) ==
    /\ worker[w] = "channel"
    /\ channel = "enabled"
    /\ WorkerAt(w, "send")
    /\ UNCHANGED <<deliveryRow, firstVars, listed, sendErr, gates, deliveryFaults>>

RetrySend(w, err) ==
    /\ worker[w] = "send"
    /\ WorkerAt(w, "update")
    /\ sendErr' = [sendErr EXCEPT ![w] = err]
    /\ UNCHANGED <<deliveryRow, firstVars, listed, gates, deliveryFaults>>

\* Variant: a retry is not counted.
Counted_Not(n) == n

\* attempt_count is what was listed, plus one.
Counted(n) == n + 1

RetryUpdate(w) ==
    /\ worker[w] = "update"
    /\ UpdateDeliveryStatus(IF sendErr[w] THEN "failed" ELSE "success", Counted(listed[w]))
    /\ Back(w)
    /\ UNCHANGED <<firstVars, gates, deliveryFaults>>

\* The process dies, or a statement fails: the row is as it was.
RetryLost(w) ==
    /\ worker[w] # "idle"
    /\ DeliveryFault
    /\ Back(w)
    /\ UNCHANGED <<deliveryRow, firstVars, gates>>

\* Operators and the evaluators resolve and reopen, disable and enable, and
\* delete for good.
GatesTurn ==
    /\ DeliveryFault
    /\ \/ openIncident' = ~openIncident /\ UNCHANGED channel
       \/ channel # "deleted" /\ channel' \in Channel \ {channel} /\ UNCHANGED openIncident
    /\ UNCHANGED <<deliveryRow, firstVars, workerVars>>

FirstStep == FinishDelivery \/ \E err \in BOOLEAN : FirstSend(err)

WorkerStep(w) ==
    \/ List(w) \/ RetryMoot(w) \/ StillOpen(w) \/ BurnBudget(w) \/ SkipDeleted(w) \/ Proceed(w)
    \/ RetryUpdate(w)
    \/ \E err \in BOOLEAN : RetrySend(w, err)

DeliveryNext ==
    \/ RecordDelivery \/ FirstStep \/ FirstLost \/ Ages \/ GatesTurn
    \/ \E w \in Workers : WorkerStep(w) \/ RetryLost(w)

DeliverySpec == DeliveryInit /\ [][DeliveryNext]_deliveryVars

\* Sends have a timeout, time passes, and every worker keeps ticking.
DeliveryFairSpec ==
    /\ DeliverySpec
    /\ WF_deliveryVars(FirstStep \/ Ages)
    /\ \A w \in Workers : WF_deliveryVars(WorkerStep(w))

-----------------------------------------------------------------------------
(* Properties *)

\* The status is the claim: while the first attempt is under way the row is
\* pending and no worker has it, so FinishDelivery never overwrites a retry.
FirstAttemptAlone ==
    first \in {"idle", "send", "finish", "dead"} =>
       /\ delivery \in {"none", "pending"}
       /\ \A w \in Workers : worker[w] = "idle"

\* The budget: a retry is only begun under it, so attempt_count stays within
\* RetryAttempts and a worker that sends has a row that counts fewer.
WithinBudget ==
    /\ attemptCount <= RetryAttempts
    /\ \A w \in Workers : worker[w] # "idle" => listed[w] < RetryAttempts

\* Retrying ends: the workers write back the attempt_count they listed, so
\* that it may go down again and a success may be overwritten, yet in the end
\* nothing is sent any more and a failed delivery is settled for good.  The row of
\* a deleted channel is not settled: it is listed and skipped on every tick.
RetriesEnd ==
    <>[](/\ \A w \in Workers : worker[w] \notin {"send", "update"}
         /\ delivery = "failed" => Settled(delivery, attemptCount) \/ channel = "deleted")
=============================================================================
