--------------------------- MODULE MonitoredItem ---------------------------
(***************************************************************************)
(* A monitored item of async-opcua-server, src/subscriptions/              *)
(* monitored_item.rs: the filter on changes, the sampling interval with    *)
(* the value it holds back, and the notification queue with its overflow   *)
(* and SemanticsChanged bits.  The module has no variables: an item is a   *)
(* record and every method an operator from the item to its next value.    *)
(*                                                                         *)
(* Data kept: a value is its content (0 for BadWaitingForInitialData) and  *)
(* its source timestamp; all timestamps are returned, no index range.  The *)
(* filter is FilterType::None or an EventFilter whose where clause selects *)
(* every event.  Aggregate filters are left out.                           *)
(*                                                                         *)
(* Fields read by no method, kept for the properties: an item's gen counts *)
(* its EURange changes, a value's gen is that count when it was sampled;   *)
(* forgotten (a value was held back once more after a change, which clears *)
(* the mark that it was sampled before); lost (a discarded notification    *)
(* has not been signalled by a delivered one), semanticsDue (an EURange    *)
(* change has not), actual (the content of the last value handed in) and   *)
(* stale (a value put back by the sampling interval is older than it).     *)
(***************************************************************************)
EXTENDS Integers, Sequences, SequencesExt

Modes == {"Disabled", "Sampling", "Reporting"}

\* SamplingInterval::Subscription; Zero is 0, NonZero a positive number.
Subscription == -1

\* Option::None for last_data_value and sample_skipped_data_value.
NoValue == [val |-> -1, ts |-> 0, gen |-> 0, forgotten |-> FALSE]

IsData(i) == i.kind = "data"
IsReporting(i) == i.mode = "Reporting"
IsSampling(i) == i.mode \in {"Reporting", "Sampling"}
HasNotifications(i) == i.queue # <<>> \/ i.overflowEvent
HasLastValue(i) == i.last # NoValue

\* sampling_interval_as_time_delta
Delta(i) == IF i.interval = Subscription THEN 0 ELSE i.interval

\* filter_by_sampling_interval
InSamplingInterval(i, v, fromTick) ==
    CASE i.interval = Subscription -> fromTick
      [] i.interval = 0 -> TRUE
      [] OTHER -> v.ts - i.last.ts >= i.interval

\* The comparison of FilterType::None; without a last value everything
\* matches, and an event filter matches no further data value.
MatchesFilter(i, v) == ~HasLastValue(i) \/ (IsData(i) /\ v.val # i.last.val)
MatchesSampling(i, v, fromTick) == ~HasLastValue(i) \/ InSamplingInterval(i, v, fromTick)

DataNotification(v) ==
    [data |-> TRUE, value |-> v, overflow |-> FALSE, semantics |-> FALSE]
EventNotification ==
    [data |-> FALSE, value |-> NoValue, overflow |-> FALSE, semantics |-> FALSE]

\* set_overflow and set_semantics_changed on the status of a data notification.
FlagOverflow(n) == IF n.data THEN [n EXCEPT !.overflow = TRUE] ELSE n
FlagSemantics(n) == IF n.data THEN [n EXCEPT !.semantics = TRUE] ELSE n

-----------------------------------------------------------------------------
(* The queue.                                                              *)

\* Mutant: the bit of a discarded notification is not carried on.
CarrySemanticsForgets(i) == i

\* carry_semantics_changed_to_next_queued_data_change
CarrySemantics(i) ==
    LET at == SelectInSeq(i.queue, LAMBDA n : n.data)
    IN  IF at = 0 THEN [i EXCEPT !.semantics = TRUE]
                  ELSE [i EXCEPT !.queue[at] = FlagSemantics(@)]

\* Mutant: the overflow bit is set before the front entry is popped.
DiscardOldestUnflagged(i, n) ==
    LET full == [i EXCEPT !.queue = Append(Tail(@), n)]
    IN  IF Head(i.queue).semantics THEN CarrySemantics(full) ELSE full

\* enqueue_notification on a full queue, discardOldest.
DiscardOldest(i, n) ==
    LET pushed == Append(Tail(i.queue), n)
        full == [i EXCEPT !.queue = IF i.queueSize > 1
                                    THEN ReplaceAt(pushed, 1, FlagOverflow(pushed[1]))
                                    ELSE pushed]
    IN  IF Head(i.queue).semantics THEN CarrySemantics(full) ELSE full

\* The same, discarding the newest.
DiscardNewest(i, n) ==
    LET lostBit == Last(i.queue).semantics
        flagged == IF i.queueSize > 1 THEN FlagOverflow(n) ELSE n
        kept == IF lostBit THEN FlagSemantics(flagged) ELSE flagged
    IN  [i EXCEPT !.queue = Append(Front(@), kept),
                  !.semantics = @ \/ (lostBit /\ ~n.data)]

\* enqueue_notification
Enqueue(i, n) ==
    LET marked == [i EXCEPT !.anyNew = TRUE]
    IN  IF Len(i.queue) # i.queueSize THEN [marked EXCEPT !.queue = Append(@, n)]
        ELSE LET full == [marked EXCEPT !.lost = @ \/ i.queueSize > 1]
             IN  IF i.discardOldest THEN DiscardOldest(full, n) ELSE DiscardNewest(full, n)

\* pop_notification until it returns None.
PopAll(i) ==
    [i EXCEPT !.queue = <<>>, !.overflowEvent = FALSE, !.lost = FALSE,
              !.semanticsDue = @ /\ ~\E k \in DOMAIN i.queue : i.queue[k].semantics]

-----------------------------------------------------------------------------
(* New values.  [item, announced] is the item and the Boolean returned.    *)

\* A value kept for the next sample.
Shifted(i, v) ==
    [v EXCEPT !.ts = i.last.ts + Delta(i), !.forgotten = @ \/ v.gen < i.gen]

\* Mutant: a value that is held back is not announced.
AcceptSilently(i, v, fromTick) ==
    CASE ~MatchesFilter(i, v) -> [item |-> i, announced |-> FALSE]
      [] MatchesFilter(i, v) /\ ~MatchesSampling(i, v, fromTick) ->
           [item |-> [i EXCEPT !.skipped = Shifted(i, v), !.skippedBefore = FALSE],
            announced |-> FALSE]
      [] OTHER ->
           [item |-> Enqueue([i EXCEPT !.last = v], DataNotification(v)), announced |-> TRUE]

\* notify_data_value once the held back value has been dealt with.
Accept(i, v, fromTick) ==
    CASE ~MatchesFilter(i, v) -> [item |-> i, announced |-> FALSE]
      [] MatchesFilter(i, v) /\ ~MatchesSampling(i, v, fromTick) ->
           [item |-> [i EXCEPT !.skipped = Shifted(i, v), !.skippedBefore = FALSE],
            announced |-> TRUE]
      [] OTHER ->
           LET n == IF i.semantics THEN FlagSemantics(DataNotification(v)) ELSE DataNotification(v)
           IN  [item |-> Enqueue([i EXCEPT !.last = v, !.semantics = FALSE], n),
                announced |-> TRUE]

\* A value sampled before the pending SemanticsChanged bit was armed passes
\* with the bit laid aside.
AcceptHeldBack(i, v, before, fromTick) ==
    IF before
    THEN LET r == Accept([i EXCEPT !.semantics = FALSE], v, fromTick)
         IN  [r EXCEPT !.item.semantics = @ \/ i.semantics]
    ELSE Accept(i, v, fromTick)

\* Mutant: a held back value that cannot be used yet stays where it is.
NotifyEnabledKeeps(i, v, now) ==
    LET usable == i.skipped # NoValue /\ i.skipped.ts <= now /\ i.skipped.ts <= v.ts
        taken == [i EXCEPT !.skipped = NoValue, !.skippedBefore = FALSE]
        first == IF usable THEN AcceptHeldBack(taken, i.skipped, i.skippedBefore, FALSE)
                           ELSE [item |-> i, announced |-> FALSE]
        second == Accept(first.item, v, FALSE)
    IN  [item |-> [second.item EXCEPT !.actual = v.val],
         announced |-> first.announced \/ second.announced]

\* notify_data_value on an item that is not disabled.
NotifyEnabled(i, v, now) ==
    LET taken == [i EXCEPT !.skipped = NoValue, !.skippedBefore = FALSE]
        usable == i.skipped # NoValue /\ i.skipped.ts <= now /\ i.skipped.ts <= v.ts
        first == IF usable THEN AcceptHeldBack(taken, i.skipped, i.skippedBefore, FALSE)
                           ELSE [item |-> IF i.skipped = NoValue THEN i ELSE taken,
                                 announced |-> FALSE]
        second == Accept(first.item, v, FALSE)
    IN  [item |-> [second.item EXCEPT
                     !.actual = v.val,
                     !.stale = /\ usable /\ first.item.skipped # NoValue
                               /\ second.item.skipped = first.item.skipped
                               /\ second.item.skipped.val # v.val],
         announced |-> first.announced \/ second.announced]

NotifyDataValue(i, v, now) ==
    IF i.mode = "Disabled" THEN [item |-> i, announced |-> FALSE]
                           ELSE NotifyEnabled(i, v, now)

\* maybe_enqueue_skipped_value
MaybeEnqueueSkipped(i, now) ==
    IF i.skipped = NoValue \/ i.skipped.ts > now
    THEN i
    ELSE LET taken == [i EXCEPT !.skipped = NoValue, !.skippedBefore = FALSE]
         IN  IF i.mode = "Disabled" THEN [taken EXCEPT !.actual = -1]
             ELSE AcceptHeldBack(taken, i.skipped, i.skippedBefore, TRUE).item

\* notify_eu_range_changed
NotifyEuRangeChanged(i) ==
    IF IsData(i)
    THEN [i EXCEPT !.skippedBefore = @ \/ i.skipped # NoValue, !.semantics = TRUE,
                   !.semanticsDue = TRUE, !.gen = @ + 1]
    ELSE i

\* notify_event; the overflow event is an extra entry beside the queue.
NotifyEvent(i) ==
    IF i.mode = "Disabled" \/ IsData(i) THEN [item |-> i, announced |-> FALSE]
    ELSE LET overflows == Len(i.queue) >= i.queueSize /\ i.queueSize > 1
         IN  [item |-> Enqueue([i EXCEPT !.overflowEvent = @ \/ overflows], EventNotification),
              announced |-> TRUE]

\* The comparison of a notification's value with the last one; the bits are part of it.
Carries(n, v) ==
    n.data /\ n.value.val = v.val /\ n.value.ts = v.ts /\ ~n.overflow /\ ~n.semantics

\* add_current_value_to_queue, for resend data: it looks at the front entry.
AddCurrentValue(i) ==
    IF ~HasLastValue(i) \/ (i.queue # <<>> /\ Carries(Head(i.queue), i.last))
    THEN i ELSE Enqueue(i, DataNotification(i.last))

-----------------------------------------------------------------------------
(* Creation and management.                                                *)

NewItem(kind, set) ==
    [kind |-> kind, mode |-> set.mode, interval |-> set.interval, queueSize |-> set.queueSize,
     discardOldest |-> set.discardOldest, queue |-> <<>>, overflowEvent |-> FALSE,
     last |-> NoValue, skipped |-> NoValue, skippedBefore |-> FALSE,
     semantics |-> FALSE, anyNew |-> FALSE, triggered |-> {},
     gen |-> 0, lost |-> FALSE, semanticsDue |-> FALSE, actual |-> -1, stale |-> FALSE]

\* MonitoredItem::new: an item starts with its initial value, or with 0 when
\* the node has none; an event item too.
New(kind, set, v) ==
    LET i == NewItem(kind, set)
    IN  IF set.mode = "Disabled" THEN i ELSE [Accept(i, v, TRUE).item EXCEPT !.actual = v.val]

\* modify that accepts the filter: settings, then the queue cut to its new size.
\* The bits of the entries that are cut go with them.
Modify(i, set) ==
    LET length == Len(i.queue)
        cut == length > set.queueSize
        kept == CASE ~cut -> i.queue
                  [] cut /\ set.discardOldest ->
                       SubSeq(i.queue, length - set.queueSize + 1, length)
                  [] OTHER -> SubSeq(i.queue, 1, set.queueSize)
    IN  [i EXCEPT !.interval = set.interval, !.queueSize = set.queueSize,
                  !.discardOldest = set.discardOldest, !.queue = kept,
                  !.lost = @ /\ (~cut \/ i.overflowEvent),
                  !.semanticsDue = @ /\ (~cut \/ i.semantics)]

\* set_triggering: removals first.
SetTriggering(i, add, remove) == [i EXCEPT !.triggered = (@ \ remove) \cup add]

=============================================================================
