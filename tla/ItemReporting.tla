--------------------------- MODULE ItemReporting ---------------------------
(***************************************************************************)
(* The monitored items of one subscription and the set of ids that its     *)
(* next publishing cycle visits: async-opcua-server,                       *)
(* src/subscriptions/subscription.rs (insert, remove, notify_*,            *)
(* tick_monitored_items, tick_monitored_item, handle_triggers) and the     *)
(* calls of session_subscriptions.rs that reach an item.                   *)
(*                                                                         *)
(* notified_monitored_items is drained by every cycle; an id is in it only *)
(* if some call put it there, so what an item still holds back has to have *)
(* been announced.  A cycle runs when notifications_available holds; when  *)
(* the state machine runs it is the subject of module PublishCycle, here   *)
(* it may be at any time.                                                  *)
(***************************************************************************)
EXTENDS MonitoredItem, FiniteSets

CONSTANTS
    Ids,          \* monitored item ids; the server never reuses one
    EventIds,     \* those created with an event filter
    Values,       \* contents a value can have, positive numbers
    Settings,     \* id -> what may be asked for it: mode, interval, queueSize, discardOldest
    InitialValues,\* contents of the first value, 0 if the node has none yet
    Lag,          \* how old a value may be when it reaches its item
    MaxNow,       \* bound on the clock
    MaxChanges,   \* bound on values and events
    MaxCalls,     \* bound on management calls after the creations
    MaxEu         \* bound on EURange changes

ASSUME ConstantsOK ==
    /\ EventIds \subseteq Ids
    /\ Values \subseteq Nat \ {0} /\ InitialValues \subseteq {0} \cup Values
    /\ Settings \in [Ids -> SUBSET [mode : Modes, interval : Nat \cup {Subscription},
                                    queueSize : Nat \ {0}, discardOldest : BOOLEAN]]
    /\ {Lag, MaxNow, MaxChanges, MaxCalls, MaxEu} \subseteq Nat

VARIABLES
    items,      \* id -> item, of the items that exist (monitored_items)
    notified,   \* notified_monitored_items
    resend,     \* resend_data
    now,        \* the clock
    created,    \* ids handed out so far
    quiet,      \* history: ids whose pending value or queue nothing announces
    changes, calls, euChanges

vars == <<items, notified, resend, now, created, quiet, changes, calls, euChanges>>

Live == DOMAIN items

\* The item holds something a later cycle has to deal with.
Pending(i) == (IsReporting(i) /\ HasNotifications(i)) \/ i.skipped # NoValue

Init ==
    /\ items = <<>>
    /\ notified = {}
    /\ resend = FALSE
    /\ now = 0
    /\ created = {}
    /\ quiet = {}
    /\ changes = 0
    /\ calls = 0
    /\ euChanges = 0

-----------------------------------------------------------------------------
(* Values, events and EURange changes drained from the session's ring.     *)

Sample(val, ts, gen) == [val |-> val, ts |-> ts, gen |-> gen, forgotten |-> FALSE]
Times == {t \in now - Lag .. now : t >= 0}

\* What both notify_data_value and notify_event of Subscription do with the answer.
Announce(id, r) ==
    /\ items' = [items EXCEPT ![id] = r.item]
    /\ notified' = IF r.announced THEN notified \cup {id} ELSE notified
    /\ quiet' = IF r.announced THEN quiet \ {id} ELSE quiet

Value(id, val, ts) ==
    /\ id \in Live \ EventIds
    /\ changes < MaxChanges
    /\ changes' = changes + 1
    /\ Announce(id, NotifyDataValue(items[id], Sample(val, ts, items[id].gen), now))
    /\ UNCHANGED <<resend, now, created, euChanges, calls>>

Event(id) ==
    /\ id \in Live \cap EventIds
    /\ changes < MaxChanges
    /\ changes' = changes + 1
    /\ Announce(id, NotifyEvent(items[id]))
    /\ UNCHANGED <<resend, now, created, euChanges, calls>>

EuRangeChanged ==
    /\ euChanges < MaxEu
    /\ euChanges' = euChanges + 1
    /\ items' = [id \in Live |-> NotifyEuRangeChanged(items[id])]
    /\ UNCHANGED <<notified, resend, now, created, quiet, changes, calls>>

-----------------------------------------------------------------------------
(* Management calls.                                                       *)

\* create_monitored_items and Subscription::insert: the id is always notified.
Create(id, set, val) ==
    /\ id \in Ids \ created
    /\ created' = created \cup {id}
    /\ items' = [i \in Live \cup {id} |->
                   IF i # id THEN items[i]
                   ELSE New(IF id \in EventIds THEN "event" ELSE "data",
                            set, Sample(val, now, 0))]
    /\ notified' = notified \cup {id}
    /\ UNCHANGED <<resend, now, euChanges, quiet, changes, calls>>

Call ==
    /\ calls < MaxCalls
    /\ calls' = calls + 1
    /\ UNCHANGED <<now, created, euChanges, changes>>

\* delete_monitored_items: the id may stay in the notified set and in links.
Delete(id) ==
    /\ Call
    /\ id \in Live
    /\ items' = [i \in Live \ {id} |-> items[i]]
    /\ quiet' = quiet \ {id}
    /\ UNCHANGED <<notified, resend>>

\* set_monitoring_mode; nothing is announced, whatever the item holds by then.
SetMonitoringMode(id, mode) ==
    /\ Call
    /\ id \in Live
    /\ items' = [items EXCEPT ![id].mode = mode]
    /\ quiet' = IF mode = "Reporting" /\ id \notin notified /\ HasNotifications(items[id])
                THEN quiet \cup {id} ELSE quiet
    /\ UNCHANGED <<notified, resend>>

ModifyItem(id, set) ==
    /\ Call
    /\ id \in Live
    /\ items' = [items EXCEPT ![id] = Modify(@, set)]
    /\ UNCHANGED <<notified, resend, quiet>>

\* set_triggering, its links filtered to items that exist.
Link(id, add, remove) ==
    /\ Call
    /\ id \in Live
    /\ items' = [items EXCEPT ![id] = SetTriggering(@, add \cap Live, remove \cap Live)]
    /\ UNCHANGED <<notified, resend, quiet>>

SetResendData ==
    /\ Call
    /\ ~resend
    /\ resend' = TRUE
    /\ UNCHANGED <<items, notified, quiet>>

-----------------------------------------------------------------------------
(* The publishing cycle.                                                   *)

NotificationsAvailable ==
    notified # {} \/ (resend /\ \E id \in Live : HasLastValue(items[id]))

Visited == IF resend THEN Live ELSE notified \cap Live

\* The first half of tick_monitored_item.
Ripened(id) == MaybeEnqueueSkipped(items[id], now)

\* A sampling item with something new triggers the items it is linked to.
Fires(id) == IsSampling(items[id]) /\ Ripened(id).anyNew
Triggers == UNION {{<<id, t>> : t \in items[id].triggered} : id \in {v \in Visited : Fires(v)}}

\* tick_monitored_item: has_new_notifications clears the flag of a sampling item,
\* a reporting item gives up its queue.
Ticked(id) ==
    LET i == Ripened(id)
        asked == IF IsSampling(i) THEN [i EXCEPT !.anyNew = FALSE] ELSE i
    IN  IF ~IsReporting(i) THEN asked
        ELSE PopAll(IF resend THEN AddCurrentValue(asked) ELSE asked)

\* handle_triggers: the queue of a triggered item goes out whatever its mode; a
\* link to an item that is gone is removed.
AfterTriggers(id, i) ==
    LET popped == IF \E t \in Triggers : t[2] = id THEN PopAll(i) ELSE i
    IN  [popped EXCEPT !.triggered = @ \ {t \in @ : <<id, t>> \in Triggers /\ t \notin Live}]

Cycled(id) == AfterTriggers(id, IF id \in Visited THEN Ticked(id) ELSE items[id])

\* The ReturnNotifications arm of Subscription::tick.
Cycle ==
    /\ NotificationsAvailable
    /\ items' = [id \in Live |-> Cycled(id)]
    /\ notified' = IF resend THEN notified ELSE {}
    /\ resend' = FALSE
    /\ quiet' = {id \in Live : \/ id \in quiet /\ Pending(items'[id])
                               \/ id \in notified \ notified' /\ items'[id].skipped # NoValue}
    /\ UNCHANGED <<now, created, euChanges, changes, calls>>

Clock ==
    /\ now < MaxNow
    /\ now' = now + 1
    /\ UNCHANGED <<items, notified, resend, created, euChanges, quiet, changes, calls>>

Next ==
    \/ \E id \in Ids, val \in Values, ts \in Times : Value(id, val, ts)
    \/ \E id \in Ids : Event(id)
    \/ EuRangeChanged
    \/ \E id \in Ids : \E set \in Settings[id], val \in InitialValues : Create(id, set, val)
    \/ \E id \in Ids : Delete(id)
    \/ \E id \in Ids, mode \in Modes : SetMonitoringMode(id, mode)
    \/ \E id \in Ids : \E set \in Settings[id] : ModifyItem(id, set)
    \/ \E id \in Ids, add, remove \in SUBSET Ids : Link(id, add, remove)
    \/ SetResendData
    \/ Cycle
    \/ Clock

Spec == Init /\ [][Next]_vars

\* A client that keeps publishing has its cycles (module PublishCycle), and time passes.
FairSpec == Spec /\ WF_vars(Cycle) /\ WF_vars(Clock)

-----------------------------------------------------------------------------
(* Properties.                                                             *)

Value0 == {NoValue} \cup [val : {0} \cup Values, ts : Nat, gen : Nat, forgotten : BOOLEAN]

Notification ==
    [data : BOOLEAN, value : Value0, overflow : BOOLEAN, semantics : BOOLEAN]

Item ==
    [kind : {"data", "event"}, mode : Modes, interval : Nat \cup {Subscription},
     queueSize : Nat \ {0}, discardOldest : BOOLEAN, queue : Seq(Notification),
     overflowEvent : BOOLEAN, last : Value0, skipped : Value0, skippedBefore : BOOLEAN,
     semantics : BOOLEAN, anyNew : BOOLEAN, triggered : SUBSET Ids, gen : Nat,
     lost : BOOLEAN, semanticsDue : BOOLEAN, actual : {-1, 0} \cup Values, stale : BOOLEAN]

\* Every item keeps the types of its fields, its queue never exceeds queue_size,
\* and a value is held back only behind one that was accepted.
TypeOK ==
    /\ Live \subseteq created /\ notified \subseteq created /\ quiet \subseteq Live
    /\ created \subseteq Ids /\ resend \in BOOLEAN /\ now \in Nat
    /\ items \in [Live -> Item]
    /\ \A id \in Live : LET i == items[id] IN
         /\ IsData(i) <=> id \notin EventIds
         /\ Len(i.queue) <= i.queueSize
         /\ i.skipped # NoValue => i.last # NoValue
         /\ i.skippedBefore => i.skipped # NoValue

\* No lost announcement: a reporting item with a queued notification, or any item
\* with a held back value, is in notified_monitored_items, unless a cycle visited
\* it before the held back value was due or set_monitoring_mode exposed its queue.
PendingAnnounced ==
    \A id \in Live : Pending(items[id]) => id \in notified \cup quiet

\* enqueue_notification on a full queue of more than one entry: until the client
\* has been told, a queued data notification carries the overflow bit, or the
\* overflow event of an event item waits beside the queue.
LossFlagged ==
    \A id \in Live : LET i == items[id] IN
      i.lost => IF IsData(i) THEN \E k \in DOMAIN i.queue : i.queue[k].overflow
                             ELSE i.overflowEvent

\* The one-shot SemanticsChanged bit is never lost by filtering, holding back or
\* discarding: from notify_eu_range_changed until a notification with the bit is
\* delivered it is armed or on a queued notification (entries cut by modify apart).
\* It is put on a value sampled before the change only if that value was held back
\* again after it: notify_data_value then clears sample_skipped_before_semantics_changed
\* (SemanticsNeverEarly is the statement without this exemption, and fails).
SemanticsExact ==
    \A id \in Live : LET i == items[id] IN
      /\ i.semanticsDue => i.semantics \/ \E k \in DOMAIN i.queue : i.queue[k].semantics
      /\ \A k \in DOMAIN i.queue : LET n == i.queue[k] IN
           n.semantics => n.value.gen > 0 \/ n.value.forgotten

\* The comment of sample_skipped_before_semantics_changed: the bit of an EURange
\* change is on no value that was sampled before the first one.  The code does not
\* keep it, see SemanticsExact.
SemanticsNeverEarly ==
    \A id \in Live : \A k \in DOMAIN items[id].queue :
      LET n == items[id].queue[k] IN n.semantics => n.value.gen > 0

\* What an enabled item reports next is the last value handed in: it is held back,
\* or was the last one accepted; unless an older value was put back (the case
\* filter_by_sampling_interval allows on a value taken from the holding place).
LatestKept ==
    \A id \in Live \ EventIds : LET i == items[id] IN
      i.actual # -1 /\ ~i.stale =>
        i.actual = IF i.skipped # NoValue THEN i.skipped.val ELSE i.last.val

\* A value held back by the sampling interval of a reporting item is sent once the
\* interval is over, also if no other value follows (maybe_enqueue_skipped_value).
HeldBackSent ==
    \A id \in Ids :
      (id \in Live /\ IsReporting(items[id]) /\ items[id].skipped # NoValue
         /\ items[id].skipped.ts <= MaxNow)
        ~> (id \in Live => items[id].skipped = NoValue \/ ~IsReporting(items[id]))
=============================================================================
