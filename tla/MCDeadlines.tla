---------------------------- MODULE MCDeadlines -----------------------------
(* Small instances of Deadlines for TLC. *)
EXTENDS Deadlines, TLC

CONSTANTS a, b, loop, cron

AnyOutcome == [x \in {a, b} |-> {"ok", "rejects", "times out"}]
Punctual == [x \in {a, b} |-> {"ok", "rejects"}]
Poison == [x \in {a, b} |-> IF x = a THEN {"rejects"} ELSE {"ok"}]

Deployment(outcomes, callers, batch, attempts, records, time, schedules, errors) ==
    [outcomes |-> outcomes, callers |-> callers, batchSize |-> batch,
     maxDeliveryAttempts |-> attempts, maxRecords |-> records,
     maxTime |-> time, maxSchedules |-> schedules, maxFaults |-> errors]

\* Reschedules and late calls against a worker loop; a worker loop and cron
\* ticks overlap over a full store; one poison deadline with pages of one.
MCSetups == {Deployment(AnyOutcome, {loop}, 2, 2, 3, 0, 2, 1),
             Deployment(Punctual, {loop, cron}, 2, 1, 2, 1, 3, 0),
             Deployment(Poison, {loop, cron}, 1, 2, 3, 1, 2, 1)}
=============================================================================
