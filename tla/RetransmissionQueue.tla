------------------------ MODULE RetransmissionQueue -------------------------
(***************************************************************************)
(* The queue of sent but unacknowledged messages of one session:           *)
(* async-opcua-server/src/subscriptions/retransmission_queue.rs.  Three    *)
(* maps are kept in step: entries by id, ids by (subscription, sequence    *)
(* number), and the ids of each subscription.  A message is its key.       *)
(***************************************************************************)
EXTENDS Naturals, FiniteSets

CONSTANTS
    SubIds,     \* subscription ids
    Seqs,       \* sequence numbers
    MaxLens,    \* values of max_retransmission_queue_len: it follows the number
                \* of subscriptions of the session
    MaxId       \* bound on next_id

ASSUME RetransmissionQueueAssumption ==
    /\ MaxLens \subseteq Nat \ {0}
    /\ MaxId \in Nat

VARIABLES
    entries,        \* BTreeMap id -> (subscription, sequence number)
    index,          \* HashMap (subscription, sequence number) -> id
    bySubscription, \* HashMap subscription -> BTreeSet of ids
    nextId

vars == <<entries, index, bySubscription, nextId>>

Keys == SubIds \X Seqs

TypeOK ==
    /\ nextId \in Nat
    /\ DOMAIN entries \subseteq Nat
    /\ entries \in [DOMAIN entries -> Keys]
    /\ DOMAIN index \subseteq Keys
    /\ index \in [DOMAIN index -> Nat]
    /\ DOMAIN bySubscription \subseteq SubIds
    /\ bySubscription \in [DOMAIN bySubscription -> SUBSET Nat]

Init ==
    /\ entries = [i \in {} |-> <<>>]
    /\ index = [k \in {} |-> 0]
    /\ bySubscription = [s \in {} |-> {}]
    /\ nextId = 0

-----------------------------------------------------------------------------
Without(f, S) == [x \in DOMAIN f \ S |-> f[x]]

With(f, x, y) == [z \in DOMAIN f \cup {x} |-> IF z = x THEN y ELSE f[z]]

IdsOf(m, s) == IF s \in DOMAIN m THEN m[s] ELSE {}

\* Mutant: the ids of a subscription keep an id whose entry is gone.
RemoveSubscriptionIdForgotten(m, s, id) == m

\* remove_subscription_id: a subscription without ids has no set.
RemoveSubscriptionId(m, s, id) ==
    IF s \notin DOMAIN m THEN m
    ELSE IF m[s] \ {id} = {} THEN Without(m, {s}) ELSE With(m, s, m[s] \ {id})

\* Mutant: the newest entry makes room.
EvictedNewest(maxLen) ==
    IF Cardinality(DOMAIN entries) < maxLen THEN {}
    ELSE {i \in DOMAIN entries : \A j \in DOMAIN entries : i >= j}

\* The entry popped by pop_first, if the queue is at its limit.
Evicted(maxLen) ==
    IF Cardinality(DOMAIN entries) < maxLen THEN {}
    ELSE {i \in DOMAIN entries : \A j \in DOMAIN entries : i <= j}

\* push_existing, after the entries `gone` (at most one) have been removed with
\* remove_indexes.
PushAfterEvicting(k, gone) ==
    LET kept == IF gone = {} THEN bySubscription
                ELSE LET id == CHOOSE i \in gone : TRUE
                     IN  RemoveSubscriptionId(bySubscription, entries[id][1], id)
    IN  /\ entries' = With(Without(entries, gone), nextId, k)
        /\ index' = With(Without(index, {entries[i] : i \in gone}), k, nextId)
        /\ bySubscription' = With(kept, k[1], IdsOf(kept, k[1]) \cup {nextId})
        /\ nextId' = nextId + 1

\* enqueue of a message that carries notifications (a keep-alive is skipped).  The
\* key is new: the debug_assert of push_existing.
Enqueue(k, maxLen) ==
    /\ nextId < MaxId
    /\ k \notin DOMAIN index
    /\ PushAfterEvicting(k, Evicted(maxLen))

\* push_existing, called when a transferred subscription is inserted.
PushExisting(k) ==
    /\ nextId < MaxId
    /\ k \notin DOMAIN index
    /\ PushAfterEvicting(k, {})

Ack(k) ==
    /\ k \in DOMAIN index
    /\ index' = Without(index, {k})
    /\ IF index[k] \in DOMAIN entries
         THEN /\ entries' = Without(entries, {index[k]})
              /\ bySubscription' = RemoveSubscriptionId(bySubscription, k[1], index[k])
         ELSE UNCHANGED <<entries, bySubscription>>
    /\ UNCHANGED nextId

\* Mutant: numbering starts again when the last entry goes.
RemoveSubscriptionRestarts(s) ==
    /\ s \in DOMAIN bySubscription
    /\ LET gone == bySubscription[s] \cap DOMAIN entries
       IN  /\ entries' = Without(entries, gone)
           /\ index' = Without(index, {entries[i] : i \in gone})
           /\ nextId' = IF gone = DOMAIN entries THEN 0 ELSE nextId
    /\ bySubscription' = Without(bySubscription, {s})

RemoveSubscription(s) ==
    /\ s \in DOMAIN bySubscription
    /\ LET gone == bySubscription[s] \cap DOMAIN entries
       IN  /\ entries' = Without(entries, gone)
           /\ index' = Without(index, {entries[i] : i \in gone})
    /\ bySubscription' = Without(bySubscription, {s})
    /\ UNCHANGED nextId

Next ==
    \/ \E k \in Keys, maxLen \in MaxLens : Enqueue(k, maxLen)
    \/ \E k \in Keys : PushExisting(k)
    \/ \E k \in Keys : Ack(k)
    \/ \E s \in SubIds : RemoveSubscription(s)

Spec == Init /\ [][Next]_vars

-----------------------------------------------------------------------------
(***************************************************************************)
(* The three maps describe the same messages.                              *)
(***************************************************************************)
\* Every entry is found through the index under its own key, so no message is
\* left that cannot be acknowledged or republished.
EntriesIndexed ==
    \A i \in DOMAIN entries : entries[i] \in DOMAIN index /\ index[entries[i]] = i

\* The index names only entries that exist, under their key.
IndexSound ==
    \A k \in DOMAIN index : index[k] \in DOMAIN entries /\ entries[index[k]] = k

\* The ids of a subscription are those of its entries, and no empty set is kept.
SubscriptionsIndexed ==
    /\ DOMAIN bySubscription = {entries[i][1] : i \in DOMAIN entries}
    /\ \A s \in DOMAIN bySubscription :
         bySubscription[s] = {i \in DOMAIN entries : entries[i][1] = s}

\* Ids are handed out once.
IdsBelowNext == \A i \in DOMAIN entries : i < nextId

\* entries, index and by_subscription agree after every operation.
IndexConsistent == EntriesIndexed /\ IndexSound /\ SubscriptionsIndexed /\ IdsBelowNext

\* Entries are never renumbered or changed: what the queue holds under an id it
\* holds until it is gone, and a removed id never comes back.
EntriesImmutable ==
    [][/\ \A i \in DOMAIN entries \cap DOMAIN entries' : entries'[i] = entries[i]
       /\ \A i \in DOMAIN entries' \ DOMAIN entries : nextId <= i /\ i < nextId'
       /\ nextId <= nextId']_vars

-----------------------------------------------------------------------------
(***************************************************************************)
(* What the queue promises: the entries, in the order of their ids, are    *)
(* the unacknowledged messages.                                            *)
(***************************************************************************)
heldBar == {entries[i] : i \in DOMAIN entries}
olderBar == {p \in heldBar \X heldBar :
               \E i, j \in DOMAIN entries : i < j /\ entries[i] = p[1] /\ entries[j] = p[2]}

Abstract == INSTANCE UnackedMessages WITH held <- heldBar, older <- olderBar

\* Every operation of the queue is one of sending, adopting, acknowledging or
\* forgetting messages (enqueue, push_existing, ack, remove_subscription).
ImplementsUnacked == Abstract!Spec
=============================================================================
