------------------------ MODULE SessionSubscriptions ------------------------
(***************************************************************************)
(* The subscriptions of one session and their publish queue:               *)
(* async-opcua-server/src/subscriptions/session_subscriptions.rs.  The     *)
(* state is a record and every method an operator on it; SessionActor runs *)
(* them one at a time.                                                     *)
(*                                                                         *)
(* The publish queue is its length: requests differ only in when they were *)
(* queued.  The retransmission queue is the sequence of unacknowledged     *)
(* messages that RetransmissionQueue is shown to implement.                *)
(***************************************************************************)
EXTENDS Subscription, SequencesExt

CONSTANTS
    MaxPending,         \* limits.max_pending_publish_requests
    MaxPerSubscription, \* limits.max_publish_requests_per_subscription
    MaxSubscriptions    \* limits.max_subscriptions_per_session

ASSUME SessionAssumption ==
    /\ MaxPending \in Nat \ {0}
    /\ MaxPerSubscription \in Nat \ {0}
    /\ MaxSubscriptions \in Nat

NewSession ==
    [subs |-> [id \in {} |-> {}],   \* subscriptions
     requests |-> 0,                \* length of publish_request_queue
     unacked |-> <<>>,              \* retransmission_queue
     status |-> <<>>,               \* pending_status_changes
     transferring |-> {},
     order |-> <<>>,                \* cached_priority_order
     dirty |-> TRUE,                \* priority_cache_dirty
     crashed |-> FALSE]             \* the actor's task has panicked

SessionIds(ses) == DOMAIN ses.subs

MaxOf(a, b) == IF a > b THEN a ELSE b
MinOf(a, b) == IF a < b THEN a ELSE b

Drop(f, S) == [x \in DOMAIN f \ S |-> f[x]]
Put(f, x, y) == [z \in DOMAIN f \cup {x} |-> IF z = x THEN y ELSE f[z]]

\* max_publish_requests
MaxPublishRequests(ses) ==
    MaxOf(1, MinOf(MaxPending, Cardinality(SessionIds(ses)) * MaxPerSubscription))

ForgetMessages(unacked, ids) == SelectSeq(unacked, LAMBDA m : m[1] \notin ids)

-----------------------------------------------------------------------------
(***************************************************************************)
(* Management operations.                                                  *)
(***************************************************************************)
\* create_subscription and insert (for a transfer, with its unacknowledged messages).
InsertSubscription(ses, id, s, unacked) ==
    [ses EXCEPT !.subs = Put(ses.subs, id, s), !.dirty = TRUE,
                !.transferring = ses.transferring \ {id},
                !.unacked = ses.unacked \o unacked]

UpdateSubscription(ses, id, s) == [ses EXCEPT !.subs[id] = s]

\* Mutant: a changed priority leaves the cached order in use.
ModifyOneKeepsCache(ses, id, settings) ==
    UpdateSubscription(ses, id, ModifySubscription(ses.subs[id], settings))

\* modify_subscription: the priority may change, so the cache is marked dirty.
ModifyOne(ses, id, settings) ==
    [UpdateSubscription(ses, id, ModifySubscription(ses.subs[id], settings)) EXCEPT !.dirty = TRUE]

\* remove, as used when a transfer completes.
RemoveOne(ses, id) ==
    [ses EXCEPT !.subs = Drop(ses.subs, {id}), !.dirty = TRUE,
                !.transferring = ses.transferring \ {id},
                !.unacked = ForgetMessages(ses.unacked, {id})]

\* delete_subscriptions: the id is not taken out of `transferring`.
DeleteOne(ses, id) ==
    [ses EXCEPT !.subs = Drop(ses.subs, {id}), !.dirty = TRUE,
                !.unacked = ForgetMessages(ses.unacked, {id})]

\* mark_transferring
MarkTransferring(ses, id) == [ses EXCEPT !.transferring = ses.transferring \cup {id}]

\* The CompleteTransfer command: remove, then queue_status_change.
CompleteTransfer(ses, id) ==
    LET r == RemoveOne(ses, id) IN [r EXCEPT !.status = Append(r.status, id)]

-----------------------------------------------------------------------------
(***************************************************************************)
(* Ticking.  A step carries the session, the messages sent in order as     *)
(* <<subscription, message>>, and the subscriptions that expired.          *)
(***************************************************************************)
\* Highest priority first, then lowest id.
PriorityOrder(subs) ==
    SetToSortSeq(DOMAIN subs,
        LAMBDA a, b : \/ subs[a].settings.priority > subs[b].settings.priority
                      \/ subs[a].settings.priority = subs[b].settings.priority /\ a < b)

\* subscription_ids_by_priority
RefreshOrder(ses) ==
    IF ses.dirty THEN [ses EXCEPT !.order = PriorityOrder(ses.subs), !.dirty = FALSE] ELSE ses

\* Subscription::tick, which does nothing for a timer that has not elapsed.
TickOne(s, reason, elapsed, req) ==
    IF reason = "TickTimerFired" /\ s.state # "Creating" /\ ~elapsed THEN s
    ELSE Tick(s, reason, req)

\* Mutant: what a tick produces is sent by the next one.
TickWithRequestsDelayed(step, id, reason, elapsed) ==
    LET ses == step.ses
        s == ses.subs[id]
        t == TickOne(s, reason, id \in elapsed, ses.requests > 0)
        n == MinOf(ses.requests, MinOf(Len(s.queue), Len(t.queue)))
    IN  IF ses.crashed \/ id \in ses.transferring \/ id \notin SessionIds(ses) THEN step
        ELSE [ses |-> [ses EXCEPT !.subs = Put(ses.subs, id, TakeNotifications(t, n)),
                                  !.requests = ses.requests - n],
              sent |-> step.sent \o [i \in 1..n |-> <<id, t.queue[i]>>],
              expired |-> step.expired]

\* tick_subscription_with_publish_requests for one id of the cached order; the
\* unwrap of a subscription that is not there panics.  A removed subscription
\* does not mark the cache dirty.
TickWithRequests(step, id, reason, elapsed) ==
    LET ses == step.ses
        s == ses.subs[id]
        t == TickOne(s, reason, id \in elapsed, ses.requests > 0)
        n == MinOf(ses.requests, Len(t.queue))
        u == TakeNotifications(t, n)
    IN  IF ses.crashed \/ id \in ses.transferring THEN step
        ELSE IF id \notin SessionIds(ses) THEN [step EXCEPT !.ses.crashed = TRUE]
        ELSE [ses |-> [ses EXCEPT
                        !.subs = IF ReadyToRemove(u) THEN Drop(ses.subs, {id}) ELSE Put(ses.subs, id, u),
                        !.unacked = IF ReadyToRemove(u) THEN ForgetMessages(ses.unacked, {id})
                                    ELSE ses.unacked,
                        !.requests = ses.requests - n],
              sent |-> step.sent \o [i \in 1..n |-> <<id, t.queue[i]>>],
              expired |-> IF s.state # "Closed" /\ t.state = "Closed" THEN step.expired \cup {id}
                          ELSE step.expired]

\* tick_subscriptions_without_publish_requests and remove_ready_subscriptions.
TickWithoutRequests(ses, reason, elapsed) ==
    LET ticked == [id \in SessionIds(ses) |->
                     IF id \in ses.transferring THEN ses.subs[id]
                     ELSE TickOne(ses.subs[id], reason, id \in elapsed, FALSE)]
        gone == {id \in SessionIds(ses) \ ses.transferring : ReadyToRemove(ticked[id])}
    IN  [ses |-> [ses EXCEPT !.subs = Drop(ticked, gone), !.dirty = TRUE,
                             !.unacked = ForgetMessages(ses.unacked, gone)],
         sent |-> <<>>,
         expired |-> {id \in SessionIds(ses) :
                        ses.subs[id].state # "Closed" /\ ticked[id].state = "Closed"}]

\* One response of send_publish_responses: RetransmissionQueue::enqueue.
Remember(ses, entry) ==
    IF entry[2].kind = "keepAlive" THEN ses
    ELSE [ses EXCEPT !.unacked =
            Append(IF Len(ses.unacked) >= 2 * MaxPublishRequests(ses) THEN Tail(ses.unacked)
                   ELSE ses.unacked, <<entry[1], entry[2].seq>>)]

\* Mutant: the order is walked from its end.
TickAndSendReversed(ses, reason, elapsed) ==
    LET fresh == RefreshOrder(ses)
        step == FoldLeft(LAMBDA acc, id : TickWithRequests(acc, id, reason, elapsed),
                         [ses |-> fresh, sent |-> <<>>, expired |-> {}], Reverse(fresh.order))
    IN  [step EXCEPT !.ses = FoldLeft(Remember, step.ses, step.sent)]

\* tick_subscriptions_with_publish_requests and send_publish_responses.
TickAndSend(ses, reason, elapsed) ==
    LET fresh == RefreshOrder(ses)
        step == FoldLeft(LAMBDA acc, id : TickWithRequests(acc, id, reason, elapsed),
                         [ses |-> fresh, sent |-> <<>>, expired |-> {}], fresh.order)
    IN  [step EXCEPT !.ses = FoldLeft(Remember, step.ses, step.sent)]

\* deliver_pending_status_changes
DeliverStatusChanges(ses) ==
    LET n == MinOf(ses.requests, Len(ses.status))
    IN  [ses EXCEPT !.requests = ses.requests - n,
                    !.status = SubSeq(ses.status, n + 1, Len(ses.status))]

\* Every subscription is staged for transfer, judging by the sizes of the sets.
NothingToTick(ses) ==
    SessionIds(ses) = {} \/ Cardinality(SessionIds(ses)) = Cardinality(ses.transferring)

\* SessionSubscriptions::tick; `late` requests have passed their deadline.
TickSession(ses, reason, elapsed, late) ==
    LET delivered == DeliverStatusChanges(ses)
        kept == [delivered EXCEPT !.requests = delivered.requests - MinOf(late, delivered.requests)]
    IN  IF NothingToTick(delivered)
          THEN [ses |-> [delivered EXCEPT !.requests = 0], sent |-> <<>>, expired |-> {}]
        ELSE IF kept.requests = 0 THEN TickWithoutRequests(kept, reason, elapsed)
        ELSE TickAndSend(kept, reason, elapsed)

\* process_notification_wake
WakeSession(ses) ==
    IF ses.requests = 0 THEN [ses |-> ses, sent |-> <<>>, expired |-> {}]
    ELSE TickAndSend(ses, "NotificationAvailable", {})

\* process_subscription_acks, for a set of <<subscription, sequence number>> pairs.
ProcessAcks(ses, acks) ==
    [ses EXCEPT !.unacked =
       SelectSeq(ses.unacked, LAMBDA m : ~(m \in acks /\ m[1] \in SessionIds(ses)))]

\* The publish queue is at its limit.
QueueFull(ses) == ses.requests >= MaxPublishRequests(ses)

\* enqueue_publish_request, first half: a full queue is ticked before the new
\* request is taken.
MakeRoom(ses, late) ==
    IF QueueFull(ses) THEN TickSession(ses, "ReceivePublishRequest", {}, late)
    ELSE [ses |-> ses, sent |-> <<>>, expired |-> {}]

\* enqueue_publish_request, second half: a queue that is still full loses its
\* oldest request, acknowledgements are processed, the request is queued and the
\* session ticked.
EnqueuePublish(room, acks, late) ==
    LET kept == IF QueueFull(room.ses) THEN [room.ses EXCEPT !.requests = room.ses.requests - 1]
                ELSE room.ses
        acked == ProcessAcks(kept, acks)
        last == TickSession([acked EXCEPT !.requests = acked.requests + 1],
                            "ReceivePublishRequest", {}, late)
    IN  IF room.ses.crashed THEN room
        ELSE [last EXCEPT !.sent = room.sent \o last.sent]

\* has_more_notifications and has_queued_publish_request: the condition of the
\* EnqueuePublish loop of the actor.
MoreToSend(ses) ==
    /\ ses.requests > 0
    /\ \E id \in SessionIds(ses) : MoreNotifications(ses.subs[id])

CancelRequests(ses, n) == [ses EXCEPT !.requests = ses.requests - n]
=============================================================================
