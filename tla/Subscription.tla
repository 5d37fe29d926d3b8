---------------------------- MODULE Subscription ----------------------------
(***************************************************************************)
(* One server-side subscription: async-opcua-server/src/subscriptions/     *)
(* subscription.rs.  A subscription is a record and every method is an     *)
(* operator from records to records, so that the modules that keep one or  *)
(* several subscriptions share the same translation of the state table.    *)
(*                                                                         *)
(* Monitored items are abstracted to three fields: `values`, how many of   *)
(* them hold a last value; `pending`, how many of these have a             *)
(* notification in their queue; and `notified`, whether the set            *)
(* notified_monitored_items is non-empty.  Every item reports and has a    *)
(* queue of one notification.                                              *)
(***************************************************************************)
EXTENDS Naturals, Sequences, FiniteSets

CONSTANTS
    U32Max,             \* u32::MAX: wraps sequence numbers, saturates counters
    MaxItems,           \* monitored items a subscription may hold
    MaxQueued,          \* limits.max_queued_notifications, 0 for no limit
    MaxPerPublish,      \* limits.max_notifications_per_publish, 0 for no limit
    MaxKeepAliveCount, DefaultKeepAliveCount, MaxLifetimeCount  \* server limits

\* The server's keep-alive limits are positive and a tick never makes as many
\* messages as there are sequence numbers.
ASSUME SubscriptionAssumption ==
    /\ U32Max \in Nat /\ MaxItems \in Nat /\ MaxItems < U32Max
    /\ MaxQueued \in Nat /\ MaxPerPublish \in Nat
    /\ MaxKeepAliveCount \in Nat \ {0}
    /\ DefaultKeepAliveCount \in 1..MaxKeepAliveCount
    /\ MaxLifetimeCount \in Nat

-----------------------------------------------------------------------------
SubscriptionState == {"Closed", "Creating", "Normal", "Late", "KeepAlive"}

TickReason == {"ReceivePublishRequest", "NotificationAvailable", "TickTimerFired"}

HandledState ==
    {"None0", "Create3", "Normal4", "Normal5", "IntervalElapsed6", "IntervalElapsed7",
     "IntervalElapsed8", "IntervalElapsed9", "Late10", "Late11", "Late12", "KeepAlive13",
     "KeepAlive14", "KeepAlive15", "KeepAlive16", "KeepAlive17", "Closed27"}

SeqNumber == 1..U32Max

\* A notification message: its sequence number and what it carries.
NotificationMessage == [kind : {"data", "keepAlive", "statusChange"}, seq : SeqNumber]

\* The revised parameters; `wakes` is publishing_interval >=
\* IMMEDIATE_NOTIFICATION_WAKE_MIN_INTERVAL.
Settings == [lifetime : Nat, keepAlive : Nat \ {0}, priority : Nat, wakes : BOOLEAN, perPublish : Nat]

SubscriptionRecord ==
    [state : SubscriptionState, settings : Settings, lifetime : Nat, keepAlive : Nat,
     first : BOOLEAN, enabled : BOOLEAN, resend : BOOLEAN, seq : SeqNumber,
     queue : Seq(NotificationMessage), discarded : 0..U32Max,
     values : 0..MaxItems, pending : 0..MaxItems, notified : BOOLEAN]

\* Handle::next as a function of the handle's current value (core/src/handle.rs).
NextHandle(n) == IF n = U32Max THEN 1 ELSE n + 1

\* Mutant: the handle never wraps.
HandleAfterNoWrap(n, i) == n + i

\* The value of the handle after i calls of next, i <= U32Max.
HandleAfter(n, i) == IF n + i <= U32Max THEN n + i ELSE (n + i) - U32Max

-----------------------------------------------------------------------------
\* revise_subscription_values and revise_max_notifications_per_publish.
ReviseKeepAlive(requested) ==
    IF requested > MaxKeepAliveCount THEN MaxKeepAliveCount
    ELSE IF requested = 0 THEN DefaultKeepAliveCount ELSE requested

ReviseLifetime(requested, keepAlive) ==
    IF requested < 3 * keepAlive THEN 3 * keepAlive
    ELSE IF requested > MaxLifetimeCount THEN MaxLifetimeCount ELSE requested

RevisePerPublish(requested) ==
    IF MaxPerPublish = 0 THEN requested
    ELSE IF requested = 0 \/ requested > MaxPerPublish THEN MaxPerPublish ELSE requested

ReviseSettings(r) ==
    [lifetime |-> ReviseLifetime(r.lifetime, ReviseKeepAlive(r.keepAlive)),
     keepAlive |-> ReviseKeepAlive(r.keepAlive),
     priority |-> r.priority, wakes |-> r.wakes,
     perPublish |-> RevisePerPublish(r.perPublish)]

\* Subscription::new
NewSubscription(settings, enabled) ==
    [state |-> "Creating", settings |-> settings,
     lifetime |-> settings.lifetime, keepAlive |-> settings.keepAlive,
     first |-> FALSE, enabled |-> enabled, resend |-> FALSE, seq |-> 1,
     queue |-> <<>>, discarded |-> 0, values |-> 0, pending |-> 0, notified |-> FALSE]

-----------------------------------------------------------------------------
(***************************************************************************)
(* The state table of OPC UA Part 4, 5.13.1.2 (get_state_transition).      *)
(***************************************************************************)
NotificationsAvailable(s) == s.notified \/ (s.resend /\ s.values > 0)

MoreNotifications(s) == s.queue # <<>>

ExpiredOrNone(s, reason) ==
    IF reason = "TickTimerFired" /\ s.lifetime <= 1 THEN "Closed27" ELSE "None0"

NormalTransition(s, reason, req) ==
    LET avail == NotificationsAvailable(s)
        more == MoreNotifications(s)
    IN  IF reason = "ReceivePublishRequest"
          THEN IF s.enabled /\ more THEN "Normal5" ELSE "Normal4"
        ELSE IF reason = "NotificationAvailable"
          THEN IF s.enabled /\ req /\ s.settings.wakes /\ (avail \/ more) THEN "IntervalElapsed6"
               ELSE IF s.enabled /\ ~req /\ (avail \/ more) THEN "Normal5"
               ELSE "None0"
        ELSE IF req /\ s.enabled /\ avail THEN "IntervalElapsed6"
        ELSE IF req /\ ~s.first /\ (~s.enabled \/ ~more) THEN "IntervalElapsed7"
        ELSE IF ~req /\ (~s.first \/ (s.enabled /\ avail)) THEN "IntervalElapsed8"
        ELSE IF s.first /\ (~s.enabled \/ ~more) THEN "IntervalElapsed9"
        ELSE ExpiredOrNone(s, reason)

\* Mutant: a late subscription with nothing to say ignores a publish request.
LateTransitionSilent(s, reason) ==
    IF reason = "TickTimerFired"
      THEN IF s.lifetime > 1 THEN "Late12" ELSE ExpiredOrNone(s, reason)
    ELSE IF s.enabled /\ (NotificationsAvailable(s) \/ MoreNotifications(s)) THEN "Late10"
    ELSE "None0"

LateTransition(s, reason) ==
    IF reason = "TickTimerFired"
      THEN IF s.lifetime > 1 THEN "Late12" ELSE ExpiredOrNone(s, reason)
    ELSE IF s.enabled /\ (NotificationsAvailable(s) \/ MoreNotifications(s)) THEN "Late10"
    ELSE IF reason = "ReceivePublishRequest" THEN "Late11"
    ELSE "None0"

\* Mutant: row 14 of the table, data that becomes available, is missing.
KeepAliveTransitionNo14(s, reason, req) ==
    IF reason = "ReceivePublishRequest" THEN "KeepAlive13"
    ELSE IF reason = "NotificationAvailable" THEN "None0"
    ELSE IF req /\ s.keepAlive = 1 THEN "KeepAlive15"
    ELSE IF s.keepAlive > 1 THEN "KeepAlive16"
    ELSE IF ~req THEN "KeepAlive17"
    ELSE ExpiredOrNone(s, reason)

KeepAliveTransition(s, reason, req) ==
    LET ready == s.enabled /\ NotificationsAvailable(s)
    IN  IF reason = "ReceivePublishRequest" THEN "KeepAlive13"
        ELSE IF reason = "NotificationAvailable"
          THEN IF ready /\ req /\ s.settings.wakes THEN "KeepAlive14"
               ELSE IF ready /\ ~req THEN "Late10"
               ELSE "None0"
        ELSE IF ready /\ req THEN "KeepAlive14"
        ELSE IF req /\ s.keepAlive = 1 THEN "KeepAlive15"
        ELSE IF s.keepAlive > 1 /\ ~ready THEN "KeepAlive16"
        ELSE IF ~req /\ (s.keepAlive = 1 \/ (s.keepAlive > 1 /\ ready)) THEN "KeepAlive17"
        ELSE ExpiredOrNone(s, reason)

GetStateTransition(s, reason, req) ==
    CASE s.state = "Creating"  -> "Create3"
      [] s.state = "Normal"    -> NormalTransition(s, reason, req)
      [] s.state = "Late"      -> LateTransition(s, reason)
      [] s.state = "KeepAlive" -> KeepAliveTransition(s, reason, req)
      [] s.state = "Closed"    -> "None0"

(***************************************************************************)
(* What each row of the table does (handle_state_transition).              *)
(***************************************************************************)
ResetsLifetime ==
    {"Normal5", "IntervalElapsed6", "IntervalElapsed7", "Late10", "Late11", "KeepAlive14"}

\* Mutant: a late subscription does not count its lifetime down.
StartsTimerNotLate ==
    {"IntervalElapsed6", "IntervalElapsed7", "IntervalElapsed8", "IntervalElapsed9",
     "KeepAlive14", "KeepAlive15", "KeepAlive16", "KeepAlive17"}

StartsTimer ==
    {"IntervalElapsed6", "IntervalElapsed7", "IntervalElapsed8", "IntervalElapsed9", "Late12",
     "KeepAlive14", "KeepAlive15", "KeepAlive16", "KeepAlive17"}

SetsFirstMessageSent ==
    {"IntervalElapsed6", "IntervalElapsed7", "Late10", "Late11", "KeepAlive14"}

ReturnsKeepAlive == {"IntervalElapsed7", "Late11", "KeepAlive15"}

ReturnsNotifications == {"Normal5", "IntervalElapsed6", "Late10", "KeepAlive14"}

StateAfter(s, t) ==
    IF t \in {"Create3", "Late10", "KeepAlive14"} THEN "Normal"
    ELSE IF t \in {"IntervalElapsed8", "Late12", "KeepAlive17"} THEN "Late"
    ELSE IF t \in {"IntervalElapsed9", "Late11"} THEN "KeepAlive"
    ELSE IF t = "Closed27" THEN "Closed"
    ELSE s.state

LifetimeAfter(s, t) ==
    LET n == IF t \in ResetsLifetime THEN s.settings.lifetime ELSE s.lifetime
    IN  IF t \in StartsTimer /\ n > 0 THEN n - 1 ELSE n

\* Mutant: the keep-alive counter is never decremented.
KeepAliveAfterStuck(s, t) ==
    IF t \in {"IntervalElapsed9", "KeepAlive15"} THEN s.settings.keepAlive ELSE s.keepAlive

KeepAliveAfter(s, t) ==
    IF t \in {"IntervalElapsed9", "KeepAlive15"} THEN s.settings.keepAlive
    ELSE IF t = "KeepAlive16" THEN s.keepAlive - 1
    ELSE s.keepAlive

FirstAfter(s, t) == t # "Create3" /\ (s.first \/ t \in SetsFirstMessageSent)

HandleStateTransition(s, t) ==
    [s EXCEPT !.state = StateAfter(s, t), !.lifetime = LifetimeAfter(s, t),
              !.keepAlive = KeepAliveAfter(s, t), !.first = FirstAfter(s, t)]

-----------------------------------------------------------------------------
(***************************************************************************)
(* Messages.                                                               *)
(***************************************************************************)
\* Mutant: messages beyond the limit are dropped without being counted.
EnqueueMessagesUncounted(s, messages) ==
    LET all == s.queue \o messages
        dropped == IF MaxQueued = 0 \/ Len(all) <= MaxQueued THEN 0 ELSE Len(all) - MaxQueued
    IN  [s EXCEPT !.queue = SubSeq(all, dropped + 1, Len(all))]

\* Mutant: the newest messages are dropped instead of the oldest.
EnqueueMessagesDropNewest(s, messages) ==
    LET all == s.queue \o messages
        kept == IF MaxQueued = 0 \/ Len(all) <= MaxQueued THEN Len(all) ELSE MaxQueued
    IN  [s EXCEPT !.queue = SubSeq(all, 1, kept),
                  !.discarded = IF s.discarded + (Len(all) - kept) > U32Max THEN U32Max
                                ELSE s.discarded + (Len(all) - kept)]

\* enqueue_notification for each message, then enforce_queued_notification_limit:
\* the oldest messages beyond the limit are dropped and counted.
EnqueueMessages(s, messages) ==
    LET all == s.queue \o messages
        dropped == IF MaxQueued = 0 \/ Len(all) <= MaxQueued THEN 0 ELSE Len(all) - MaxQueued
    IN  [s EXCEPT !.queue = SubSeq(all, dropped + 1, Len(all)),
                  !.discarded = IF s.discarded + dropped > U32Max THEN U32Max
                                ELSE s.discarded + dropped]

\* How many messages n notifications make: one is cut whenever the scratch
\* buffer holds perPublish notifications, and one for what is left.
MessageCount(n, perPublish) ==
    Cardinality({i \in 1..n : i = n \/ (perPublish > 0 /\ i % perPublish = 0)})

\* tick_monitored_items: the notifications of the notified items, or of every
\* item together with its last value when data is resent.
CollectedNotifications(s) ==
    IF s.resend THEN s.values ELSE IF s.notified THEN s.pending ELSE 0

DataMessages(seq, n) == [i \in 1..n |-> [kind |-> "data", seq |-> HandleAfter(seq, i - 1)]]

\* The ReturnNotifications arm of tick: resend_data is taken, the notified set is
\* drained unless data was resent, and the messages are enqueued.
ReturnNotifications(s) ==
    LET n == MessageCount(CollectedNotifications(s), s.settings.perPublish)
    IN  EnqueueMessages([s EXCEPT !.resend = FALSE,
                                  !.notified = s.resend /\ s.notified,
                                  !.pending = IF s.resend \/ s.notified THEN 0 ELSE s.pending,
                                  !.seq = HandleAfter(s.seq, n)],
                        DataMessages(s.seq, n))

\* A keep-alive carries the number of the next message and does not consume it.
ReturnKeepAlive(s) == EnqueueMessages(s, <<[kind |-> "keepAlive", seq |-> s.seq]>>)

\* Mutant: a full queue has no room for the status change.
ExpireUnlessFull(s) ==
    LET cleared == [s EXCEPT !.values = 0, !.pending = 0]
    IN  IF MaxQueued > 0 /\ Len(s.queue) >= MaxQueued THEN cleared
        ELSE EnqueueMessages([cleared EXCEPT !.seq = NextHandle(s.seq)],
                             <<[kind |-> "statusChange", seq |-> s.seq]>>)

\* Expiry drops the monitored items and queues a status change.
Expire(s) ==
    EnqueueMessages([s EXCEPT !.values = 0, !.pending = 0, !.seq = NextHandle(s.seq)],
                    <<[kind |-> "statusChange", seq |-> s.seq]>>)

\* Subscription::tick once the publishing interval has elapsed or for another reason.
Tick(s, reason, req) ==
    LET t == GetStateTransition(s, reason, req)
        h == HandleStateTransition(s, t)
    IN  IF t \in ReturnsKeepAlive THEN ReturnKeepAlive(h)
        ELSE IF t \in ReturnsNotifications THEN ReturnNotifications(h)
        ELSE IF t = "Closed27" THEN Expire(h)
        ELSE h

\* take_notification, called n times.
TakeNotifications(s, n) == [s EXCEPT !.queue = SubSeq(s.queue, n + 1, Len(s.queue))]

ReadyToRemove(s) == s.state = "Closed" /\ s.queue = <<>>

-----------------------------------------------------------------------------
(***************************************************************************)
(* The other operations on a subscription.                                 *)
(***************************************************************************)
\* modify_subscription
ModifySubscription(s, settings) ==
    [s EXCEPT !.settings = settings, !.lifetime = settings.lifetime,
              !.keepAlive = settings.keepAlive]

\* set_publishing_mode
SetPublishingMode(s, enabled) ==
    [s EXCEPT !.enabled = enabled, !.lifetime = s.settings.lifetime]

\* The part of republish that touches the subscription.
ResetLifetimeCounter(s) == [s EXCEPT !.lifetime = s.settings.lifetime]

SetResendData(s) == [s EXCEPT !.resend = TRUE]

\* Subscription::insert: the item is notified whether or not it has a value.
InsertItem(s, withValue) ==
    [s EXCEPT !.notified = TRUE,
              !.values = IF withValue THEN s.values + 1 ELSE s.values,
              !.pending = IF withValue THEN s.pending + 1 ELSE s.pending]

\* notify_data_value on an item that had no notification queued.  A value that
\* arrives inside the sampling interval notifies the item but is not queued.
NotifyDataValue(s, queued) ==
    [s EXCEPT !.notified = TRUE, !.pending = IF queued THEN s.pending + 1 ELSE s.pending]

\* Subscription::remove of an item with a value; its id stays in the notified set.
RemoveItem(s, queued) ==
    [s EXCEPT !.values = s.values - 1, !.pending = IF queued THEN s.pending - 1 ELSE s.pending]

-----------------------------------------------------------------------------
(***************************************************************************)
(* Facts about a subscription's message queue.                             *)
(***************************************************************************)
\* The sequence number a client expects after message m.
Following(m) == IF m.kind = "keepAlive" THEN m.seq ELSE NextHandle(m.seq)

\* The sequence number of the message that would be sent next.
OldestSeq(s) == IF s.queue = <<>> THEN s.seq ELSE s.queue[1].seq

\* Queued messages and the next number to be assigned follow one another.
Contiguous(s) ==
    \A i \in 1..Len(s.queue) :
        Following(s.queue[i]) = IF i = Len(s.queue) THEN s.seq ELSE s.queue[i + 1].seq
=============================================================================
