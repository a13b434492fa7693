------------------------------ MODULE EventBus ------------------------------
(***************************************************************************)
(* EventBusImpl: subscribe, subscribeAll, once, and publish under          *)
(* runBoundedExecution.                                                    *)
(*                                                                         *)
(* Handlers are called one after the other and settle in any order, late   *)
(* or never.  Between two calls anything may happen, because the           *)
(* synchronous part of a handler may subscribe, unsubscribe or publish.    *)
(***************************************************************************)
EXTENDS Naturals, Sequences, SequencesExt, FiniteSets

CONSTANTS Types,      \* event types
          All,        \* the topic of subscribeAll
          Slots,      \* calls of subscribe, subscribeAll and once
          Topic,      \* slot -> its type, or All
          Handler,    \* slot -> the function it passes; several may pass one
          Waiters,    \* the slots that are once() calls
          Publishes,  \* calls of publish()
          Setups      \* the situations: see setup

ASSUME EventBusAssumption ==
    /\ Topic \in [Slots -> Types \cup {All}]
    /\ Waiters \subseteq Slots /\ \A o \in Waiters : Topic[o] \in Types
    /\ \A s \in Setups : s.slots \subseteq Slots /\ s.events \in [Publishes -> Seq(Types)]

None == "none"

VARIABLES setup,   \* the situation, chosen once
          lists,   \* topic -> the handlers in its array
          arrays,  \* topic -> which array the bus holds for it
          slot,    \* slot -> [on: off, on or removed; array: the captured one]
          wait,    \* once() -> none, waiting, resolved or rejected
          pub      \* publish -> its control state

vars == <<lists, arrays, slot, wait, pub>>

Events == setup.events   \* publish -> the types of its events; <<>> does not happen

-----------------------------------------------------------------------------
(* Subscriptions *)

\* A type whose last handler went gets a new array with the next subscriber.
Subscribe(s) ==
    /\ slot[s].on = "off"
    /\ lists' = [lists EXCEPT ![Topic[s]] = Append(@, Handler[s])]
    /\ slot' = [slot EXCEPT ![s] = [on |-> "on", array |-> arrays[Topic[s]]]]
    /\ wait' = IF s \in Waiters THEN [wait EXCEPT ![s] = "waiting"] ELSE wait
    /\ UNCHANGED <<arrays, pub>>

First(seq, h) == SelectInSeq(seq, LAMBDA g : g = h)

\* Mutant: the element is deleted and leaves a hole.
FirstDeleted(seq, h) == IF Contains(seq, h) THEN [seq EXCEPT ![First(seq, h)] = None] ELSE seq

FirstRemoved(seq, h) == IF Contains(seq, h) THEN RemoveAt(seq, First(seq, h)) ELSE seq

\* Mutant: without the flag a second call removes another subscription, or
\* the array of a later one.
UnsubscribedAgain(s) ==
    LET topic == Topic[s]
        stale == slot[s].array # arrays[topic]
        left == IF stale THEN <<>> ELSE FirstRemoved(lists[topic], Handler[s])
    IN  /\ lists' = [lists EXCEPT ![topic] = left]
        /\ arrays' = IF topic # All /\ left = <<>> THEN [arrays EXCEPT ![topic] = 1 - @] ELSE arrays
        /\ slot' = [slot EXCEPT ![s].on = "removed"]

\* The function subscribe returns: the first occurrence goes, once.
Unsubscribed(s) ==
    LET topic == Topic[s]
        left == FirstRemoved(lists[topic], Handler[s])
    IN  IF slot[s].on = "removed" THEN UNCHANGED <<lists, arrays, slot>>
        ELSE /\ lists' = [lists EXCEPT ![topic] = left]
             /\ arrays' = IF topic # All /\ left = <<>> THEN [arrays EXCEPT ![topic] = 1 - @] ELSE arrays
             /\ slot' = [slot EXCEPT ![s].on = "removed"]

Unsubscribe(s) ==
    /\ s \notin Waiters /\ slot[s].on # "off"
    /\ Unsubscribed(s)
    /\ UNCHANGED <<wait, pub>>

\* Mutant: the subscription stays behind.
SettledLeaking(o, result) ==
    wait' = [wait EXCEPT ![o] = result] /\ UNCHANGED <<lists, arrays, slot>>

\* cleanup(), then resolve or reject.
Settled(o, result) == Unsubscribed(o) /\ wait' = [wait EXCEPT ![o] = result]

\* The timer of once() fires, or its signal.
GiveUp(o) ==
    /\ wait[o] = "waiting"
    /\ Settled(o, "rejected")
    /\ UNCHANGED pub

-----------------------------------------------------------------------------
(* publish *)

Due(type) == {s \in Slots : slot[s].on = "on" /\ Topic[s] \in {type, All}}

Batch(type) == lists[type] \o lists[All]

Publish(p) ==
    /\ pub[p].pc = "idle" /\ Events[p] # <<>>
    /\ pub' = [pub EXCEPT ![p].pc = "next"]
    /\ UNCHANGED <<lists, arrays, slot, wait>>

\* Mutant: a signal that fired is not looked at between events.
StoppedNever(p) == FALSE

\* context.signal.aborted, before and after every event.
Stopped(p) == pub[p].aborted

\* Mutant: errors are thrown only when there are several.
ResultMultiple(p) == IF pub[p].errors > 1 THEN "aggregate" ELSE "ok"

Result(p) ==
    CASE pub[p].errors = 0 -> "ok" [] pub[p].errors = 1 -> "error" [] OTHER -> "aggregate"

\* The next event: abort, the end of the batch, or a snapshot of its handlers.
Dispatch(p) ==
    LET q == pub[p]
        i == q.i + 1
    IN  /\ q.pc = "next"
        /\ pub' = [pub EXCEPT ![p] =
              IF Stopped(p) THEN [q EXCEPT !.pc = "done"]
              ELSE IF i > Len(Events[p])
              THEN [q EXCEPT !.pc = "done", !.outcome = IF @ = None THEN Result(p) ELSE @]
              ELSE [q EXCEPT !.pc = "calling", !.i = i, !.batch = Batch(Events[p][i]),
                             !.due = Due(Events[p][i]), !.called = <<>>]]
        /\ UNCHANGED <<lists, arrays, slot, wait>>

\* Mutant: the handlers are read from the live lists.
UpcomingLive(p) ==
    LET n == Len(pub[p].called)
        live == Batch(Events[p][pub[p].i])
    IN  SubSeq(live, n + 1, Len(live))

Upcoming(p) == pub[p].batch

\* Mutant: the next event does not wait for the handlers of this one.
AllCalled(p) == Upcoming(p) = <<>>

\* Promise.allSettled
AllSettled(p) == Upcoming(p) = <<>> /\ pub[p].running = {}

\* One handler of the snapshot is called.  That of a once() call cleans up and
\* resolves, or finds itself settled already.
Call(p) ==
    LET h == Head(Upcoming(p))
        n == Len(pub[p].called) + 1
        waiters == {o \in Waiters : Handler[o] = h}
    IN  /\ pub[p].pc = "calling" /\ Upcoming(p) # <<>>
        /\ pub' = [pub EXCEPT
               ![p].batch = IF @ = <<>> THEN @ ELSE Tail(@),
               ![p].called = Append(@, h),
               ![p].running = IF waiters = {} THEN @ \cup {<<pub[p].i, n>>} ELSE @]
        /\ IF \E o \in waiters : wait[o] = "waiting"
           THEN \E o \in waiters : Settled(o, "resolved")
           ELSE UNCHANGED <<lists, arrays, slot, wait>>

\* A handler returns, or throws or rejects, which its peers do not notice.
HandlerSettles(p, r, ok) ==
    /\ r \in pub[p].running
    /\ pub' = [pub EXCEPT ![p].running = @ \ {r},
                          ![p].errors = IF ok THEN @ ELSE @ + 1]
    /\ UNCHANGED <<lists, arrays, slot, wait>>

EndOfEvent(p) ==
    /\ pub[p].pc = "calling" /\ AllSettled(p)
    /\ pub' = [pub EXCEPT ![p].pc = "next"]
    /\ UNCHANGED <<lists, arrays, slot, wait>>

\* Mutant: a publication that runs a handler waits for it.
AbortBetweenEvents(p) ==
    /\ pub[p].pc = "next" /\ pub[p].outcome = None
    /\ pub' = [pub EXCEPT ![p].aborted = TRUE, ![p].outcome = "aborted"]
    /\ UNCHANGED <<lists, arrays, slot, wait>>

\* The deadline passes or the owner aborts: publish rejects at once, and what
\* runs goes on.
Abort(p) ==
    /\ pub[p].pc # "idle" /\ pub[p].outcome = None
    /\ pub' = [pub EXCEPT ![p].aborted = TRUE, ![p].outcome = "aborted"]
    /\ UNCHANGED <<lists, arrays, slot, wait>>

-----------------------------------------------------------------------------

Init ==
    /\ setup \in Setups
    /\ lists = [t \in Types \cup {All} |-> <<>>]
    /\ arrays = [t \in Types \cup {All} |-> 0]
    /\ slot = [s \in Slots |-> [on |-> "off", array |-> 0]]
    /\ wait = [o \in Waiters |-> None]
    /\ pub = [p \in Publishes |->
                 [pc |-> "idle", i |-> 0, batch |-> <<>>, due |-> {}, called |-> <<>>,
                  running |-> {}, errors |-> 0, aborted |-> FALSE, outcome |-> None]]

Next ==
    /\ \/ \E s \in setup.slots : Subscribe(s) \/ Unsubscribe(s)
       \/ \E o \in Waiters : GiveUp(o)
       \/ \E p \in Publishes :
             \/ Publish(p) \/ Dispatch(p) \/ Call(p) \/ EndOfEvent(p) \/ Abort(p)
             \/ \E r \in pub[p].running, ok \in BOOLEAN : HandlerSettles(p, r, ok)
    /\ UNCHANGED setup

Spec == Init /\ [][Next]_<<vars, setup>>

\* The timer of publish fires, and the event loop runs what is ready.  No
\* handler is assumed to settle.
FairSpec ==
    Spec /\ \A p \in Publishes :
               /\ WF_vars(Dispatch(p)) /\ WF_vars(Call(p)) /\ WF_vars(EndOfEvent(p))
               /\ WF_vars(Abort(p))

-----------------------------------------------------------------------------
(* Properties *)

Occurrences(seq, h) == Len(SelectSeq(seq, LAMBDA g : g = h))

\* Type correctness of subscriptions, waiters and publications.
TypeOK ==
    /\ \A t \in Types \cup {All} : lists[t] \in Seq({Handler[s] : s \in Slots})
    /\ slot \in [Slots -> [on : {"off", "on", "removed"}, array : 0..1]]
    /\ wait \in [Waiters -> {None, "waiting", "resolved", "rejected"}]
    /\ \A p \in Publishes :
          /\ pub[p].pc \in {"idle", "next", "calling", "done"}
          /\ pub[p].i \in 0..Len(Events[p])
          /\ pub[p].outcome \in {None, "ok", "error", "aggregate", "aborted"}

\* The arrays hold each handler as often as it is subscribed: an unsubscribe
\* function that is called twice, or after its array was replaced, takes
\* nothing from other subscriptions of the same handler or type.
SubscriptionsCounted ==
    \A t \in Types \cup {All} : \A h \in {Handler[s] : s \in Slots} :
       Occurrences(lists[t], h) =
          Cardinality({s \in Slots : slot[s].on = "on" /\ Topic[s] = t /\ Handler[s] = h})

\* When an event is over, each handler has been called as often as it was
\* subscribed when the event's turn came, whatever its peers did meanwhile.
NobodySkipped ==
    \A p \in Publishes : \A h \in {Handler[s] : s \in Slots} :
       pub[p].pc \in {"next", "done"} =>
          Occurrences(pub[p].called, h) = Cardinality({s \in pub[p].due : Handler[s] = h})

\* The handlers of an event run only after those of the events before it.
InOrder ==
    \A p \in Publishes :
       /\ \A r \in pub[p].running : r[1] = pub[p].i
       /\ pub[p].pc \in {"next", "done"} => pub[p].running = {}

\* publish resolves only if every event was dispatched and no handler failed,
\* and rejects with all the failures otherwise, or with the abort.
OutcomeTruthful ==
    \A p \in Publishes :
       CASE pub[p].outcome = "ok" -> pub[p].i = Len(Events[p]) /\ pub[p].errors = 0
         [] pub[p].outcome = "error" -> pub[p].i = Len(Events[p]) /\ pub[p].errors = 1
         [] pub[p].outcome = "aggregate" -> pub[p].i = Len(Events[p]) /\ pub[p].errors > 1
         [] OTHER -> TRUE

\* Once a publication was aborted it starts on no further event.
NothingAfterAbort ==
    [][\A p \in Publishes : pub[p].aborted => pub'[p].i = pub[p].i]_vars

\* A once() call settles one time and leaves no subscription behind.
OnceIsOnce ==
    [][\A o \in Waiters :
          wait[o] \in {"resolved", "rejected"} => wait'[o] = wait[o] /\ slot[o].on = "removed"]_vars

\* Every publish() settles, even if a handler never does.
PublishSettles == []<>(\A p \in Publishes : pub[p].pc # "idle" => pub[p].outcome # None)

\* Well formed, with every subscription counted; every handler of an event is
\* called once, event after event, and the outcome tells what they did.
PublishedAsPromised ==
    TypeOK /\ SubscriptionsCounted /\ NobodySkipped /\ InOrder /\ OutcomeTruthful

\* What has settled stays settled: nothing starts after an abort, and once()
\* settles once.
SettledForGood == NothingAfterAbort /\ OnceIsOnce
=============================================================================
