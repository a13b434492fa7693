------------------------------- MODULE Outbox -------------------------------
(***************************************************************************)
(* InMemoryOutbox: pending and dead-lettered records keyed by event id,    *)
(* one cursor per event source, and a bounded LRU of dispatched receipts.  *)
(*                                                                         *)
(* An event id determines its source and its index in its commit, as the   *)
(* ids minted by the kit do, so the eventId-collision checks on those two  *)
(* hold by construction; the ones on aggregateVersion and commitSize are   *)
(* kept.  add() is synchronous: its loop is modelled one message at a time *)
(* while addResult = "running", and nothing else is enabled meanwhile.     *)
(***************************************************************************)
EXTENDS Naturals, Sequences, FiniteSets, OrderedFilter

CONSTANTS Sources,               \* qualified aggregate addresses
          MaxCommits,            \* bound: eventful commits of one source
          MaxSize,               \* bound: events of one commit
          MaxDeliveryAttempts,   \* options.maxDeliveryAttempts
          MaxRetained,           \* options.maxRetainedDispatchedEventIds
          MaxRecords,            \* options.maxRecords
          MaxSources             \* options.maxSources

ASSUME OutboxAssumption ==
    /\ MaxCommits \in Nat \ {0} /\ MaxSize \in Nat \ {0}
    /\ MaxDeliveryAttempts \in Nat \ {0} /\ MaxRetained \in Nat \ {0}
    /\ MaxRecords \in Nat \ {0} /\ MaxSources \in Nat \ {0}

VARIABLES rec,        \* event id -> its pending or dead record
          queue,      \* insertion order of the pending Map
          cursors,    \* sourceCursors
          receipts,   \* dispatchedEventIds, oldest first
          adding,     \* candidates a running add() has still to process
          addResult,  \* "none", "running", "added" or "rejected"
          mutated     \* history: this add() has changed a record or a cursor

outboxVars == <<rec, queue, cursors, receipts, adding, addResult, mutated>>

EventIds == [src : Sources, commit : 1..MaxCommits, seq : 0..(MaxSize - 1)]

\* The order in which a source produced its events.
Before(a, b) == /\ a.src = b.src
                /\ \/ a.commit < b.commit
                   \/ a.commit = b.commit /\ a.seq < b.seq

\* A version of 0 stands for "none": the first commit reaches version 1.
NoVersion == 0

NoRecord == [place |-> "none", version |-> NoVersion, previous |-> NoVersion,
             size |-> 0, attempts |-> 0]

NoCursor == [version |-> NoVersion, previous |-> NoVersion, size |-> 0, owners |-> {}]

OutboxInit ==
    /\ rec = [e \in EventIds |-> NoRecord]
    /\ queue = <<>>
    /\ cursors = [s \in Sources |-> NoCursor]
    /\ receipts = <<>>
    /\ adding = <<>>
    /\ addResult = "none"
    /\ mutated = FALSE

Pending(e) == rec[e].place = "pending"
Dead(e) == rec[e].place = "dead"

Receipt(e) == {r \in {receipts[i] : i \in DOMAIN receipts} : r.id = e}
Dispatched(e) == Receipt(e) # {}

-----------------------------------------------------------------------------
(* The checks add() makes on the whole batch before its loop *)

SameReceipt(c, version, size) == c.version = version /\ c.size = size

\* assertBatchEventReceiptIntegrity
ReceiptIntegrity(batch) ==
    \A i \in DOMAIN batch :
        LET c == batch[i] IN
        /\ \A j \in 1..(i - 1) : batch[j].id = c.id
                                 => SameReceipt(c, batch[j].version, batch[j].size)
        /\ \A r \in Receipt(c.id) : SameReceipt(c, r.version, r.size)
        /\ Pending(c.id) /\ ~Dispatched(c.id) => c.size = rec[c.id].size
        /\ Dead(c.id) /\ ~Dispatched(c.id)
           => SameReceipt(c, rec[c.id].version, rec[c.id].size)

\* The position (version, seq) of a cursor belongs to another event.
Owned(cursor, c) == \E o \in cursor.owners : o.seq = c.id.seq /\ o # c.id

Conflicts(cursor, c) == /\ cursor.version = c.version
                        /\ cursor.size # c.size \/ Owned(cursor, c)

\* assertBatchPositionIntegrity: a candidate at the head its source has by
\* then (the stored cursor, or a later one earlier in the batch) must agree
\* with the commit recorded there.  One behind that head is let through.
PositionIntegrity(batch) ==
    \A i \in DOMAIN batch :
        LET c == batch[i]
            earlier == {batch[j] : j \in {j \in 1..(i - 1) : batch[j].id.src = c.id.src}}
            behind == \/ c.version < cursors[c.id.src].version
                      \/ \E b \in earlier : c.version < b.version
        IN  ~behind =>
               /\ ~Conflicts(cursors[c.id.src], c)
               /\ \A b \in earlier : b.version = c.version =>
                     b.size = c.size /\ (b.id.seq = c.id.seq => b.id = c.id)

\* Mutant: the limits are compared with what is stored before the batch.
WithinLimitsBefore(batch) ==
    /\ Cardinality({e \in EventIds : Pending(e) \/ Dead(e)}) <= MaxRecords
    /\ Cardinality({s \in Sources : cursors[s] # NoCursor}) <= MaxSources

\* assertCapacity
WithinLimits(batch) ==
    LET fresh == {c \in {batch[i] : i \in DOMAIN batch} :
                     ~Pending(c.id) /\ ~Dead(c.id) /\ ~Dispatched(c.id)}
        freshSources == {s \in {c.id.src : c \in fresh} : cursors[s] = NoCursor}
    IN  /\ Cardinality({e \in EventIds : Pending(e) \/ Dead(e)})
             + Cardinality({c.id : c \in fresh}) <= MaxRecords
        /\ Cardinality({s \in Sources : cursors[s] # NoCursor})
             + Cardinality(freshSources) <= MaxSources

BeginAdd(batch) ==
    /\ mutated' = FALSE
    /\ IF ReceiptIntegrity(batch) /\ PositionIntegrity(batch) /\ WithinLimits(batch)
       THEN adding' = batch /\ addResult' = "running"
       ELSE adding' = <<>> /\ addResult' = "rejected"
    /\ UNCHANGED <<rec, queue, cursors, receipts>>

-----------------------------------------------------------------------------
(* The loop of add(), one message per step, its cases in the code's order *)

Last(seq, n) == IF Len(seq) <= n THEN seq ELSE SubSeq(seq, Len(seq) - n + 1, Len(seq))

\* rememberDispatched for each of new in turn: most recent last, oldest evicted.
Remember(new) ==
    LET renewed == {new[i].id : i \in DOMAIN new}
        older == {r \in {receipts[i] : i \in DOMAIN receipts} : r.id \notin renewed}
    IN  receipts' = Last(Only(receipts, older) \o new, MaxRetained)

ReceiptOf(c) == [id |-> c.id, version |-> c.version, size |-> c.size]

\* The message is behind the head that the outbox already recorded.
Stale(c) == IF Pending(c.id) THEN c.version < rec[c.id].version
                             ELSE c.version < cursors[c.id.src].version

\* Mutant: the replacement of a leaked attempt is linked behind it.
PreviousOfSuccessor(c) ==
    LET cursor == cursors[c.id.src]
    IN  IF cursor.version = c.version THEN cursor.previous ELSE cursor.version

\* Mutant: an event at the recorded head is linked to that head.
PreviousOfHead(c) == IF Pending(c.id) THEN rec[c.id].previous ELSE cursors[c.id.src].version

PreviousOf(c) ==
    LET cursor == cursors[c.id.src]
    IN  IF Pending(c.id) THEN rec[c.id].previous
        ELSE IF cursor.version = c.version THEN cursor.previous
        ELSE cursor.version

\* The source head after the message.  A pending record under another version
\* is a leaked attempt: its replacement takes the head over, it does not
\* succeed it.
CursorAfter(c) ==
    LET cursor == cursors[c.id.src]
    IN  IF Pending(c.id) /\ rec[c.id].version = c.version THEN cursor
        ELSE IF cursor.version = c.version
             THEN [cursor EXCEPT !.owners = @ \cup {c.id}]
        ELSE IF Pending(c.id) /\ cursor.version # rec[c.id].version THEN cursor
        ELSE [version |-> c.version, previous |-> PreviousOf(c),
              size |-> c.size, owners |-> {c.id}]

\* Mutant: a re-added pending record is queued a second time.
EnqueueAgain(e) == queue' = Append(queue, e)

Enqueue(e) == queue' = IF Pending(e) THEN queue ELSE Append(queue, e)

AddRefreshesReceipt(c) ==
    /\ Dispatched(c.id)
    /\ Remember(<<ReceiptOf(c)>>)
    /\ adding' = Tail(adding)
    /\ UNCHANGED <<rec, queue, cursors, addResult>>

AddRequeues(c) ==
    /\ ~Dispatched(c.id) /\ Dead(c.id)
    /\ rec' = [rec EXCEPT ![c.id].place = "pending", ![c.id].attempts = 0]
    /\ Enqueue(c.id)
    /\ adding' = Tail(adding)
    /\ UNCHANGED <<cursors, receipts, addResult>>

AddThrows(c) ==
    /\ ~Dispatched(c.id) /\ ~Dead(c.id)
    /\ Stale(c) \/ Conflicts(cursors[c.id.src], c)
    /\ adding' = <<>>
    /\ addResult' = "rejected"
    /\ UNCHANGED <<rec, queue, cursors, receipts>>

AddRecords(c) ==
    /\ ~Dispatched(c.id) /\ ~Dead(c.id)
    /\ ~Stale(c) /\ ~Conflicts(cursors[c.id.src], c)
    /\ rec' = [rec EXCEPT ![c.id] =
                 [place |-> "pending", version |-> c.version, previous |-> PreviousOf(c),
                  size |-> c.size, attempts |-> rec[c.id].attempts]]
    /\ cursors' = [cursors EXCEPT ![c.id.src] = CursorAfter(c)]
    /\ Enqueue(c.id)
    /\ adding' = Tail(adding)
    /\ UNCHANGED <<receipts, addResult>>

AddMessage ==
    /\ addResult = "running" /\ adding # <<>>
    /\ LET c == Head(adding) IN
          \/ AddRefreshesReceipt(c)
          \/ AddRequeues(c)
          \/ AddThrows(c)
          \/ AddRecords(c)
    /\ mutated' = (mutated \/ rec' # rec \/ cursors' # cursors)

AddReturns ==
    /\ addResult = "running" /\ adding = <<>>
    /\ addResult' = "added"
    /\ UNCHANGED <<rec, queue, cursors, receipts, adding, mutated>>

-----------------------------------------------------------------------------
(* The poll surface *)

addVars == <<cursors, adding, addResult, mutated>>

\* Mutant: the newest records come first.
GetPendingNewest(limit) ==
    [i \in 1..(IF Len(queue) < limit THEN Len(queue) ELSE limit) |->
        LET e == queue[Len(queue) + 1 - i]
        IN  [id |-> e, version |-> rec[e].version, previous |-> rec[e].previous]]

\* getPending(limit): copies of the oldest pending records.
GetPending(limit) ==
    [i \in 1..(IF Len(queue) < limit THEN Len(queue) ELSE limit) |->
        [id |-> queue[i], version |-> rec[queue[i]].version,
         previous |-> rec[queue[i]].previous]]

Dequeue(ids) == queue' = Only(queue, EventIds \ ids)

\* markDispatched(ids), for a sequence of distinct dispatch ids.
MarkDispatched(ids) ==
    LET set == {ids[i] : i \in DOMAIN ids}
        known == Only(ids, {e \in set : Pending(e) \/ Dead(e)})
    IN  /\ Remember([i \in DOMAIN known |->
                       [id |-> known[i], version |-> rec[known[i]].version,
                        size |-> rec[known[i]].size]])
        /\ rec' = [e \in EventIds |-> IF e \in set THEN NoRecord ELSE rec[e]]
        /\ Dequeue(set)
        /\ UNCHANGED addVars

\* Mutant: a failed record moves behind the others.
MarkFailedToTail(e) ==
    /\ IF ~Pending(e) THEN UNCHANGED <<rec, queue>>
       ELSE IF rec[e].attempts + 1 >= MaxDeliveryAttempts
       THEN /\ rec' = [rec EXCEPT ![e].place = "dead", ![e].attempts = @ + 1]
            /\ Dequeue({e})
       ELSE /\ rec' = [rec EXCEPT ![e].attempts = @ + 1]
            /\ queue' = Append(Only(queue, EventIds \ {e}), e)
    /\ UNCHANGED <<receipts, addVars>>

\* markFailed(id): only a pending record counts the failure.
MarkFailed(e) ==
    /\ IF ~Pending(e) THEN UNCHANGED <<rec, queue>>
       ELSE IF rec[e].attempts + 1 >= MaxDeliveryAttempts
       THEN /\ rec' = [rec EXCEPT ![e].place = "dead", ![e].attempts = @ + 1]
            /\ Dequeue({e})
       ELSE rec' = [rec EXCEPT ![e].attempts = @ + 1] /\ UNCHANGED queue
    /\ UNCHANGED <<receipts, addVars>>
=============================================================================
