---------------------------- MODULE PublishCycle ----------------------------
(***************************************************************************)
(* The publish cycle of one subscription in its session's actor            *)
(* (session_subscriptions.rs and actor.rs).  The session's other           *)
(* subscriptions are the environment: with Interference they answer queued *)
(* publish requests before and after this subscription is ticked, and      *)
(* requests time out.                                                      *)
(***************************************************************************)
EXTENDS Subscription

CONSTANTS
    RequestedSettings,  \* parameters a client may ask for in create and modify
    MaxRequests,        \* max_publish_requests()
    MaxOperations,      \* bound on management calls and item changes
    Interference        \* whether other subscriptions and timeouts take requests

ASSUME PublishCycleAssumption ==
    /\ RequestedSettings \subseteq
         [lifetime : Nat, keepAlive : Nat, priority : Nat, wakes : BOOLEAN, perPublish : Nat]
    /\ RequestedSettings # {}
    /\ MaxRequests \in Nat \ {0}
    /\ MaxOperations \in Nat
    /\ Interference \in BOOLEAN

VARIABLES
    sub,        \* the subscription
    requests,   \* length of publish_request_queue
    removed,    \* the subscription has left the session
    quiet,      \* the client has fallen silent for good
    operations, \* management calls and item changes so far
    expected,   \* history: sequence number the client expects next
    parity      \* history: parity of the timer expirations, so that one that
                \* changes nothing else is still a step

vars == <<sub, requests, removed, quiet, operations, expected, parity>>

TypeOK ==
    /\ sub \in SubscriptionRecord
    /\ requests \in 0..MaxRequests
    /\ removed \in BOOLEAN
    /\ quiet \in BOOLEAN
    /\ operations \in 0..MaxOperations
    /\ expected \in SeqNumber
    /\ parity \in {0, 1}

Init ==
    /\ \E r \in RequestedSettings, enabled \in BOOLEAN :
         sub = NewSubscription(ReviseSettings(r), enabled)
    /\ requests = 0
    /\ removed = FALSE
    /\ quiet = FALSE
    /\ operations = 0
    /\ expected = 1
    /\ parity = 0

-----------------------------------------------------------------------------
Smaller(a, b) == IF a < b THEN a ELSE b

\* How many requests others may take out of n.
TakenByOthers(n) == IF Interference THEN 0..n ELSE {0}

\* Mutant: one message per tick however many requests are queued.
CycleOneMessage(s, n, e, reason) ==
    LET t == Tick(s, reason, n > 0)
        sent == Smaller(1, Smaller(n, Len(t.queue)))
    IN  [sub |-> TakeNotifications(t, sent),
         requests |-> n - sent,
         expected |-> IF sent = 0 THEN e ELSE Following(t.queue[sent])]

(***************************************************************************)
(* tick_subscription_with_publish_requests, or its counterpart without     *)
(* requests when n = 0: tick, then answer a request with each message      *)
(* while there are both.  A cycle is the subscription, the requests left   *)
(* and the client's expectation.                                           *)
(***************************************************************************)
Cycle(s, n, e, reason) ==
    LET t == Tick(s, reason, n > 0)
        sent == Smaller(n, Len(t.queue))
    IN  [sub |-> TakeNotifications(t, sent),
         requests |-> n - sent,
         expected |-> IF sent = 0 THEN e ELSE Following(t.queue[sent])]

\* The effect of a cycle; `after` requests are then answered by others.
Commit(c, after) ==
    /\ sub' = c.sub
    /\ removed' = ReadyToRemove(c.sub)
    /\ requests' = IF removed' THEN 0 ELSE c.requests - after
    /\ expected' = c.expected

\* SessionSubscriptions::tick for the actor's timer.
TimerFires ==
    /\ ~removed
    /\ \E before \in TakenByOthers(requests) :
         LET c == Cycle(sub, requests - before, expected, "TickTimerFired")
         IN  \E after \in TakenByOthers(c.requests) : Commit(c, after)
    /\ parity' = 1 - parity
    /\ UNCHANGED <<quiet, operations>>

\* process_notification_wake: nothing happens without a queued request.
NotificationWake ==
    /\ ~removed
    /\ requests > 0
    /\ \E before \in TakenByOthers(requests) :
         LET c == Cycle(sub, requests - before, expected, "NotificationAvailable")
         IN  \E after \in TakenByOthers(c.requests) : Commit(c, after)
    /\ UNCHANGED <<quiet, operations, parity>>

\* enqueue_publish_request: a full queue is ticked first and, if it stays full,
\* loses its oldest request; the new request is queued and the session ticked.
\* The request that just arrived may be answered by a subscription of higher
\* priority.
PublishRequest ==
    /\ ~removed /\ ~quiet
    /\ \E early \in IF requests >= MaxRequests THEN TakenByOthers(requests) ELSE {0} :
         LET first == IF requests >= MaxRequests
                        THEN Cycle(sub, requests - early, expected, "ReceivePublishRequest")
                        ELSE [sub |-> sub, requests |-> requests, expected |-> expected]
             kept == Smaller(first.requests, MaxRequests - 1)
         IN  \E before \in TakenByOthers(kept + 1) :
               LET c == Cycle(first.sub, (kept + 1) - before, first.expected,
                              "ReceivePublishRequest")
               IN  \E after \in TakenByOthers(c.requests) : Commit(c, after)
    /\ UNCHANGED <<quiet, operations, parity>>

\* cancel_publish_requests
CancelPublish ==
    /\ ~removed /\ ~quiet
    /\ requests > 0
    /\ operations < MaxOperations
    /\ \E n \in 1..requests : requests' = requests - n
    /\ operations' = operations + 1
    /\ UNCHANGED <<sub, removed, quiet, expected, parity>>

\* ModifySubscription, SetPublishingMode, Republish and ResendData calls.
Manage ==
    /\ ~removed /\ ~quiet
    /\ operations < MaxOperations
    /\ \/ \E r \in RequestedSettings : sub' = ModifySubscription(sub, ReviseSettings(r))
       \/ \E enabled \in BOOLEAN : sub' = SetPublishingMode(sub, enabled)
       \/ sub' = ResetLifetimeCounter(sub)
       \/ sub' = SetResendData(sub)
    /\ operations' = operations + 1
    /\ UNCHANGED <<requests, removed, quiet, expected, parity>>

\* The client creates or deletes a monitored item.
ChangeItems ==
    /\ ~removed /\ ~quiet
    /\ operations < MaxOperations
    /\ \/ \E withValue \in BOOLEAN :
            sub.values < MaxItems /\ sub' = InsertItem(sub, withValue)
       \/ \E queued \in BOOLEAN :
            /\ IF queued THEN sub.pending > 0 ELSE sub.values > sub.pending
            /\ sub' = RemoveItem(sub, queued)
    /\ operations' = operations + 1
    /\ UNCHANGED <<requests, removed, quiet, expected, parity>>

\* drain_ring: a new value reaches an item that has none queued.
DataChange ==
    /\ ~removed
    /\ sub.values > sub.pending
    /\ operations < MaxOperations
    /\ \E queued \in BOOLEAN : sub' = NotifyDataValue(sub, queued)
    /\ operations' = operations + 1
    /\ UNCHANGED <<requests, removed, quiet, expected, parity>>

\* The client disappears: none of its calls reach the session any more.
FallSilent ==
    /\ ~removed /\ ~quiet
    /\ quiet' = TRUE
    /\ UNCHANGED <<sub, requests, removed, operations, expected, parity>>

Next ==
    \/ TimerFires
    \/ NotificationWake
    \/ PublishRequest
    \/ CancelPublish
    \/ Manage
    \/ ChangeItems
    \/ DataChange
    \/ FallSilent

Spec == Init /\ [][Next]_vars

\* The actor's sleep always ends, so its timer arm runs again and again while there
\* is a subscription.  TimerFires is the step that flips `parity`.
TimerStep == ~removed /\ parity' = 1 - parity

FairSpec == Spec /\ WF_parity(TimerStep)

-----------------------------------------------------------------------------
(***************************************************************************)
(* Safety.                                                                 *)
(***************************************************************************)
\* Messages leave with consecutive sequence numbers: each queued message is
\* followed by the number it announces (the next one after data or a status
\* change, the same one after a keep-alive), and the last by the number the
\* subscription will assign next (peek_next and next in Subscription::tick).
QueueContiguous == Contiguous(sub)

\* A client never sees a gap unless the server counted a discarded message: while
\* discarded_message_count is zero the oldest unsent number is the one the client
\* expects after what it received.
NoSilentGap == sub.discarded = 0 => OldestSeq(sub) = expected

\* A message and a request never wait for each other: tick empties one of the
\* two queues before it returns.
NoMessageWaitsForRequest == requests > 0 => sub.queue = <<>>

\* The session never leaves a subscription Late while it holds a request.
NotLateWithRequests == requests > 0 => sub.state # "Late"

\* A closed subscription keeps its last word: until it is removed the status
\* change is the last message of its queue.
ClosedEndsWithStatusChange ==
    sub.state = "Closed" /\ ~removed =>
        /\ sub.queue # <<>>
        /\ sub.queue[Len(sub.queue)].kind = "statusChange"

-----------------------------------------------------------------------------
(***************************************************************************)
(* Liveness, under FairSpec.                                               *)
(***************************************************************************)
\* The notifications of an enabled subscription are published if its client keeps
\* sending publish requests: no row of the state table lets keep-alives answer
\* them all while data waits.
NotificationsPublished ==
    []<>(requests > 0) =>
        ((sub.enabled /\ sub.pending > 0) ~> (~sub.enabled \/ sub.pending = 0))

\* A queued request is not held for ever: a keep-alive at the latest answers it.
RequestsAnswered == (requests > 0 /\ quiet) ~> (requests = 0)

\* A subscription with nothing left to send expires when its client is silent.
SilentClientExpiresWhenDrained ==
    (quiet /\ requests = 0 /\ sub.queue = <<>>) ~> (sub.state = "Closed")

-----------------------------------------------------------------------------
(***************************************************************************)
(* What a comment in subscription.rs says, which the code does not do.     *)
(***************************************************************************)
\* "the number of consecutive publishing timer expirations without Client
\* activity before the Subscription is terminated": a client that stays silent
\* loses its subscription.
SilentClientExpires == quiet ~> (sub.state = "Closed")
=============================================================================
