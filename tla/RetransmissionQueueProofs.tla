---------------------- MODULE RetransmissionQueueProofs ----------------------
(***************************************************************************)
(* Proofs about RetransmissionQueue for every set of subscriptions and     *)
(* sequence numbers, every limit and every number of operations.           *)
(***************************************************************************)
EXTENDS RetransmissionQueue, FiniteSetTheorems, TLAPS

-----------------------------------------------------------------------------
(***************************************************************************)
(* The inductive invariant.  IndexConsistent needs TypeOK, and of its four *)
(* parts none is preserved without the others.                             *)
(***************************************************************************)
IInv == TypeOK /\ IndexConsistent

\* The ids that a map from subscriptions to sets of ids gives the entries in D.
Describes(m, D) ==
    /\ DOMAIN m = {entries[i][1] : i \in D}
    /\ \A s \in DOMAIN m : m[s] = {i \in D : entries[i][1] = s}

\* The limit evicts at most one entry.
LEMMA EvictedAtMostOne ==
    ASSUME TypeOK, NEW maxLen
    PROVE  /\ Evicted(maxLen) \subseteq DOMAIN entries
           /\ \A i, j \in Evicted(maxLen) : i = j
  BY DEF Evicted, TypeOK

\* remove_subscription_id keeps the map of ids a description of what is left.
LEMMA RemoveSubscriptionIdDescribes ==
    ASSUME NEW m, NEW D, NEW id \in D, Describes(m, D)
    PROVE  Describes(RemoveSubscriptionId(m, entries[id][1], id), D \ {id})
<1> DEFINE s == entries[id][1]
           r == RemoveSubscriptionId(m, s, id)
<1>1. s \in DOMAIN m /\ id \in m[s]
  BY DEF Describes
<1>2. /\ DOMAIN r = IF m[s] \ {id} = {} THEN DOMAIN m \ {s} ELSE DOMAIN m
      /\ \A t \in DOMAIN r : r[t] = IF t = s THEN m[s] \ {id} ELSE m[t]
  BY <1>1 DEF RemoveSubscriptionId, Without, With
<1> HIDE DEF r
<1>3. DOMAIN r = {entries[i][1] : i \in D \ {id}}
  <2>1. CASE m[s] \ {id} = {}
    <3>1. \A i \in D : entries[i][1] = s => i = id
      BY <2>1, <1>1 DEF Describes
    <3> QED
      BY <2>1, <3>1, <1>2 DEF Describes
  <2>2. CASE m[s] \ {id} # {}
    <3>1. PICK j \in m[s] \ {id} : TRUE
      BY <2>2
    <3>2. j \in D \ {id} /\ entries[j][1] = s
      BY <3>1, <1>1 DEF Describes
    <3> QED
      BY <2>2, <3>2, <1>2 DEF Describes
  <2> QED
    BY <2>1, <2>2
<1>4. ASSUME NEW t \in DOMAIN r
      PROVE  r[t] = {i \in D \ {id} : entries[i][1] = t}
  <2>1. t \in DOMAIN m
    BY <1>1, <1>2
  <2>2. m[t] = {i \in D : entries[i][1] = t}
    BY <2>1 DEF Describes
  <2>3. CASE t = s
    BY <2>2, <2>3, <1>2, <1>4
  <2>4. CASE t # s
    BY <2>2, <2>4, <1>2, <1>4
  <2> QED
    BY <2>3, <2>4
<1> QED
  BY <1>3, <1>4 DEF Describes, r

\* Pushing a message under a new key, after the entries `gone` have made room.
LEMMA PushPreserves ==
    ASSUME IInv, NEW k \in Keys, k \notin DOMAIN index,
           NEW gone \in SUBSET DOMAIN entries,
           \A i, j \in gone : i = j,
           PushAfterEvicting(k, gone)
    PROVE  IInv'
<1> DEFINE D == DOMAIN entries \ gone
           kept == IF gone = {} THEN bySubscription
                   ELSE LET id == CHOOSE i \in gone : TRUE
                        IN  RemoveSubscriptionId(bySubscription, entries[id][1], id)
           lost == {entries[i] : i \in gone}
<1> USE DEF IInv, IndexConsistent
<1>1. Describes(bySubscription, DOMAIN entries)
  BY DEF SubscriptionsIndexed, Describes
<1>2. Describes(kept, D)
  <2>1. CASE gone = {}
    BY <2>1, <1>1
  <2>2. CASE gone # {}
    <3> DEFINE id == CHOOSE i \in gone : TRUE
    <3>1. id \in gone /\ gone = {id}
      BY <2>2
    <3> HIDE DEF id
    <3>2. Describes(RemoveSubscriptionId(bySubscription, entries[id][1], id), DOMAIN entries \ {id})
      BY <3>1, <1>1, RemoveSubscriptionIdDescribes
    <3> QED
      BY <2>2, <3>1, <3>2 DEF id
  <2> QED
    BY <2>1, <2>2
<1>3. /\ entries' = With(Without(entries, gone), nextId, k)
      /\ index' = With(Without(index, lost), k, nextId)
      /\ bySubscription' = With(kept, k[1], IdsOf(kept, k[1]) \cup {nextId})
      /\ nextId' = nextId + 1
  BY DEF PushAfterEvicting
<1> HIDE DEF kept
<1>4. nextId \in Nat /\ nextId \notin DOMAIN entries
  BY DEF TypeOK, IdsBelowNext
<1>5. /\ DOMAIN entries' = D \cup {nextId}
      /\ entries'[nextId] = k
      /\ \A i \in D : entries'[i] = entries[i]
  BY <1>3, <1>4 DEF With, Without
<1>6. /\ DOMAIN index' = (DOMAIN index \ lost) \cup {k}
      /\ index'[k] = nextId
      /\ \A x \in DOMAIN index \ lost : index'[x] = index[x]
  BY <1>3 DEF With, Without
<1>7. /\ DOMAIN bySubscription' = DOMAIN kept \cup {k[1]}
      /\ bySubscription'[k[1]] = IdsOf(kept, k[1]) \cup {nextId}
      /\ \A t \in DOMAIN kept : t # k[1] => bySubscription'[t] = kept[t]
  BY <1>3 DEF With
<1>8. TypeOK'
  <2>1. entries' \in [DOMAIN entries' -> Keys] /\ DOMAIN entries' \subseteq Nat
    <3>1. \A i \in DOMAIN entries' : entries'[i] \in Keys
      BY <1>5 DEF TypeOK
    <3>2. entries' = [i \in DOMAIN entries' |-> entries'[i]]
      BY <1>3 DEF With
    <3> QED
      BY <3>1, <3>2, <1>4, <1>5 DEF TypeOK
  <2>2. index' \in [DOMAIN index' -> Nat] /\ DOMAIN index' \subseteq Keys
    <3>1. \A x \in DOMAIN index' : index'[x] \in Nat
      BY <1>4, <1>6 DEF TypeOK
    <3>2. index' = [x \in DOMAIN index' |-> index'[x]]
      BY <1>3 DEF With
    <3> QED
      BY <3>1, <3>2, <1>6 DEF TypeOK
  <2>3. /\ bySubscription' \in [DOMAIN bySubscription' -> SUBSET Nat]
        /\ DOMAIN bySubscription' \subseteq SubIds
    <3>1. \A t \in DOMAIN kept : kept[t] \in SUBSET Nat
      BY <1>2 DEF Describes, TypeOK
    <3>2. \A t \in DOMAIN bySubscription' : bySubscription'[t] \in SUBSET Nat
      BY <3>1, <1>4, <1>7 DEF IdsOf
    <3>3. bySubscription' = [t \in DOMAIN bySubscription' |-> bySubscription'[t]]
      BY <1>3 DEF With
    <3>4. DOMAIN kept \subseteq SubIds
      BY <1>2 DEF Describes, TypeOK, Keys
    <3> QED
      BY <3>2, <3>3, <3>4, <1>7 DEF Keys
  <2>4. nextId' \in Nat
    BY <1>3, <1>4
  <2> QED
    BY <2>1, <2>2, <2>3, <2>4 DEF TypeOK
<1>9. EntriesIndexed'
  <2>1. \A i \in D : entries[i] \in DOMAIN index \ lost
    BY DEF EntriesIndexed
  <2> QED
    BY <2>1, <1>5, <1>6 DEF EntriesIndexed
<1>10. IndexSound'
  <2>1. \A x \in DOMAIN index \ lost : index[x] \in D /\ entries[index[x]] = x
    BY DEF IndexSound
  <2> QED
    BY <2>1, <1>5, <1>6 DEF IndexSound
<1>11. SubscriptionsIndexed'
  <2>1. DOMAIN bySubscription' = {entries'[i][1] : i \in DOMAIN entries'}
    BY <1>2, <1>5, <1>7 DEF Describes
  <2>2. ASSUME NEW t \in DOMAIN bySubscription'
        PROVE  bySubscription'[t] = {i \in DOMAIN entries' : entries'[i][1] = t}
    <3>1. IdsOf(kept, t) = {i \in D : entries[i][1] = t}
      BY <1>2 DEF Describes, IdsOf
    <3>2. CASE t = k[1]
      BY <3>1, <3>2, <1>4, <1>5, <1>7
    <3>3. CASE t # k[1]
      BY <3>1, <3>3, <1>4, <1>5, <1>7 DEF IdsOf
    <3> QED
      BY <3>2, <3>3
  <2> QED
    BY <2>1, <2>2 DEF SubscriptionsIndexed
<1>12. IdsBelowNext'
  BY <1>3, <1>4, <1>5 DEF IdsBelowNext, TypeOK
<1> QED
  BY <1>8, <1>9, <1>10, <1>11, <1>12

\* Taking the entries `gone` out of entries and index.
LEMMA RemovalPreserves ==
    ASSUME IInv, NEW gone \in SUBSET DOMAIN entries,
           entries' = Without(entries, gone),
           index' = Without(index, {entries[i] : i \in gone}),
           Describes(bySubscription', DOMAIN entries \ gone),
           bySubscription' = [t \in DOMAIN bySubscription' |-> bySubscription'[t]],
           nextId' = nextId
    PROVE  IInv'
<1> DEFINE D == DOMAIN entries \ gone
           lost == {entries[i] : i \in gone}
<1> USE DEF IInv, IndexConsistent
<1>1. /\ DOMAIN entries' = D
      /\ \A i \in D : entries'[i] = entries[i]
  BY DEF Without
<1>2. /\ DOMAIN index' = DOMAIN index \ lost
      /\ \A x \in DOMAIN index \ lost : index'[x] = index[x]
  BY DEF Without
<1>3. TypeOK'
  <2>1. entries' \in [D -> Keys]
    BY DEF Without, TypeOK
  <2>2. index' \in [DOMAIN index \ lost -> Nat]
    BY DEF Without, TypeOK
  <2>3. /\ \A t \in DOMAIN bySubscription' : bySubscription'[t] \in SUBSET Nat
        /\ DOMAIN bySubscription' \subseteq SubIds
    BY DEF Describes, TypeOK, Keys
  <2>4. bySubscription' \in [DOMAIN bySubscription' -> SUBSET Nat]
    BY <2>3
  <2> QED
    BY <2>1, <2>2, <2>3, <2>4, <1>1, <1>2 DEF TypeOK
<1>4. EntriesIndexed'
  <2>1. \A i \in D : entries[i] \in DOMAIN index \ lost
    BY DEF EntriesIndexed
  <2> QED
    BY <2>1, <1>1, <1>2 DEF EntriesIndexed
<1>5. IndexSound'
  <2>1. \A x \in DOMAIN index \ lost : index[x] \in D /\ entries[index[x]] = x
    BY DEF IndexSound
  <2> QED
    BY <2>1, <1>1, <1>2 DEF IndexSound
<1>6. SubscriptionsIndexed'
  BY <1>1 DEF Describes, SubscriptionsIndexed
<1>7. IdsBelowNext'
  BY <1>1 DEF IdsBelowNext
<1> QED
  BY <1>3, <1>4, <1>5, <1>6, <1>7

\* The empty queue satisfies the invariant.
LEMMA InitEstablishes == Init => IInv
  BY DEF Init, IInv, IndexConsistent, TypeOK, EntriesIndexed, IndexSound,
         SubscriptionsIndexed, IdsBelowNext

\* Every operation of the queue keeps the invariant.
LEMMA NextPreserves == IInv /\ [Next]_vars => IInv'
<1> SUFFICES ASSUME IInv, [Next]_vars PROVE IInv'
  OBVIOUS
<1>1. ASSUME NEW k \in Keys, NEW maxLen \in MaxLens, Enqueue(k, maxLen)
      PROVE  IInv'
  BY <1>1, EvictedAtMostOne, PushPreserves DEF Enqueue, IInv
<1>2. ASSUME NEW k \in Keys, PushExisting(k)
      PROVE  IInv'
  BY <1>2, PushPreserves DEF PushExisting
<1>3. ASSUME NEW k \in Keys, Ack(k)
      PROVE  IInv'
  <2> DEFINE id == index[k]
  <2>1. id \in DOMAIN entries /\ entries[id] = k /\ k \in DOMAIN index
    BY <1>3 DEF Ack, IInv, IndexConsistent, IndexSound
  <2>2. /\ entries' = Without(entries, {id})
        /\ index' = Without(index, {k})
        /\ bySubscription' = RemoveSubscriptionId(bySubscription, k[1], id)
        /\ nextId' = nextId
    BY <1>3, <2>1 DEF Ack
  <2> HIDE DEF id
  <2>3. Describes(bySubscription, DOMAIN entries)
    BY DEF IInv, IndexConsistent, SubscriptionsIndexed, Describes
  <2>4. Describes(bySubscription', DOMAIN entries \ {id})
    BY <2>1, <2>2, <2>3, RemoveSubscriptionIdDescribes
  <2>5. bySubscription' = [t \in DOMAIN bySubscription' |-> bySubscription'[t]]
    BY <2>2 DEF RemoveSubscriptionId, Without, With, IInv, TypeOK
  <2>6. {entries[i] : i \in {id}} = {k}
    BY <2>1
  <2> QED
    BY <2>1, <2>2, <2>4, <2>5, <2>6, RemovalPreserves
<1>4. ASSUME NEW s \in SubIds, RemoveSubscription(s)
      PROVE  IInv'
  <2> DEFINE gone == bySubscription[s] \cap DOMAIN entries
  <2>1. /\ s \in DOMAIN bySubscription
        /\ entries' = Without(entries, gone)
        /\ index' = Without(index, {entries[i] : i \in gone})
        /\ bySubscription' = Without(bySubscription, {s})
        /\ nextId' = nextId
    BY <1>4 DEF RemoveSubscription
  <2>2. gone = {i \in DOMAIN entries : entries[i][1] = s}
    BY <2>1 DEF IInv, IndexConsistent, SubscriptionsIndexed
  <2>3. Describes(bySubscription', DOMAIN entries \ gone)
    BY <2>1, <2>2 DEF Describes, Without, IInv, IndexConsistent, SubscriptionsIndexed
  <2>4. bySubscription' = [t \in DOMAIN bySubscription' |-> bySubscription'[t]]
    BY <2>1 DEF Without
  <2> HIDE DEF gone
  <2> QED
    BY <2>1, <2>3, <2>4, RemovalPreserves DEF gone
<1>5. CASE UNCHANGED vars
  BY <1>5 DEF vars, IInv, IndexConsistent, TypeOK, EntriesIndexed, IndexSound,
              SubscriptionsIndexed, IdsBelowNext
<1> QED
  BY <1>1, <1>2, <1>3, <1>4, <1>5 DEF Next

-----------------------------------------------------------------------------
(***************************************************************************)
(* The theorems.                                                           *)
(***************************************************************************)
\* entries, index and by_subscription of retransmission_queue.rs agree after any
\* sequence of enqueue, push_existing, ack and remove_subscription.
THEOREM IndexAlwaysConsistent == Spec => []IndexConsistent
<1>1. Spec => []IInv
  BY InitEstablishes, NextPreserves, PTL DEF Spec
<1>2. IInv => IndexConsistent
  BY DEF IInv
<1> QED
  BY <1>1, <1>2, PTL

\* An id of the retransmission queue names one message for ever.
THEOREM EntriesNeverChange == Spec => EntriesImmutable
<1>1. Spec => []IInv
  BY InitEstablishes, NextPreserves, PTL DEF Spec
<1> DEFINE Kept ==
      /\ \A i \in DOMAIN entries \cap DOMAIN entries' : entries'[i] = entries[i]
      /\ \A i \in DOMAIN entries' \ DOMAIN entries : nextId <= i /\ i < nextId'
      /\ nextId <= nextId'
<1>2. ASSUME IInv, [Next]_vars PROVE [Kept]_vars
  <2>1. nextId \in Nat /\ nextId \notin DOMAIN entries
    BY <1>2 DEF IInv, IndexConsistent, IdsBelowNext, TypeOK
  <2>2. ASSUME NEW k \in Keys, NEW gone, PushAfterEvicting(k, gone)
        PROVE  Kept
    BY <2>1, <2>2 DEF PushAfterEvicting, With, Without
  <2>3. ASSUME NEW k \in Keys, Ack(k)
        PROVE  Kept
    BY <2>1, <2>3 DEF Ack, Without
  <2>4. ASSUME NEW s \in SubIds, RemoveSubscription(s)
        PROVE  Kept
    BY <2>1, <2>4 DEF RemoveSubscription, Without
  <2> HIDE DEF Kept
  <2>5. ASSUME NEW k \in Keys, NEW maxLen \in MaxLens, Enqueue(k, maxLen)
        PROVE  Kept
    BY <2>2, <2>5 DEF Enqueue
  <2>6. ASSUME NEW k \in Keys, PushExisting(k)
        PROVE  Kept
    BY <2>2, <2>6 DEF PushExisting
  <2> QED
    BY <1>2, <2>3, <2>4, <2>5, <2>6 DEF Next
<1> QED
  BY <1>1, <1>2, PTL DEF Spec, EntriesImmutable

-----------------------------------------------------------------------------
(***************************************************************************)
(* The refinement.  The index numbers the messages, so that the order of   *)
(* the abstract specification is the order of the index.                   *)
(***************************************************************************)

\* The pairs of keys in K whose ids, given by the index f, are in order.
Ordered(f, K) == {p \in K \X K : f[p[1]] < f[p[2]]}

LEMMA MappingByIndex ==
    ASSUME IInv
    PROVE  heldBar = DOMAIN index /\ olderBar = Ordered(index, DOMAIN index)
<1> USE DEF IInv, IndexConsistent
<1>1. heldBar = DOMAIN index
  BY DEF heldBar, EntriesIndexed, IndexSound
<1>2. ASSUME NEW p \in heldBar \X heldBar
      PROVE  (\E i, j \in DOMAIN entries : i < j /\ entries[i] = p[1] /\ entries[j] = p[2])
                <=> index[p[1]] < index[p[2]]
  <2>1. p[1] \in DOMAIN index /\ p[2] \in DOMAIN index
    BY <1>1
  <2> QED
    BY <2>1 DEF EntriesIndexed, IndexSound
<1> QED
  BY <1>1, <1>2 DEF olderBar, Ordered

LEMMA MappingByIndexNext ==
    ASSUME IInv'
    PROVE  heldBar' = DOMAIN index' /\ olderBar' = Ordered(index', DOMAIN index')
<1> USE DEF IInv, IndexConsistent
<1>1. heldBar' = DOMAIN index'
  BY DEF heldBar, EntriesIndexed, IndexSound
<1>2. ASSUME NEW p \in heldBar' \X heldBar'
      PROVE  (\E i, j \in DOMAIN entries' : i < j /\ entries'[i] = p[1] /\ entries'[j] = p[2])
                <=> index'[p[1]] < index'[p[2]]
  <2>1. p[1] \in DOMAIN index' /\ p[2] \in DOMAIN index'
    BY <1>1
  <2> QED
    BY <2>1 DEF EntriesIndexed, IndexSound
<1> QED
  BY <1>1, <1>2 DEF olderBar, Ordered

\* The limit of enqueue counts entries; there are as many as messages.
LEMMA AsManyEntries ==
    ASSUME IInv
    PROVE  Cardinality(DOMAIN entries) = Cardinality(heldBar)
<1> USE DEF IInv, IndexConsistent
<1>1. IsFiniteSet(DOMAIN entries)
  <2>1. DOMAIN entries \in SUBSET Nat /\ nextId \in Nat /\ \A i \in DOMAIN entries : i <= nextId
    BY DEF TypeOK, IdsBelowNext
  <2> QED
    BY <2>1, FS_BoundedSetOfNaturals
<1>2. entries \in Bijection(DOMAIN entries, heldBar)
  <2>1. entries \in [DOMAIN entries -> heldBar]
    BY DEF heldBar, TypeOK
  <2>2. \A i, j \in DOMAIN entries : entries[i] = entries[j] => i = j
    BY DEF EntriesIndexed
  <2>3. \A k \in heldBar : \E i \in DOMAIN entries : entries[i] = k
    BY DEF heldBar
  <2> QED
    BY <2>1, <2>2, <2>3 DEF Bijection, Injection, Surjection, IsInjective
<1>3. ExistsBijection(DOMAIN entries, heldBar)
  BY <1>2 DEF ExistsBijection
<1> QED
  BY <1>1, <1>3, FS_Bijection

\* The abstract specification counts in the same way.
LEMMA SameCardinality == \A S : Abstract!Cardinality(S) = Cardinality(S)
  BY DEF Abstract!Cardinality, Cardinality

\* The entry with the least id is the oldest message.
LEMMA EvictedIsOldest ==
    ASSUME IInv, NEW i \in DOMAIN entries
    PROVE  (\A j \in DOMAIN entries : i <= j) <=> entries[i] \in Abstract!Oldest
<1> USE DEF IInv, IndexConsistent
<1>1. heldBar = DOMAIN index /\ olderBar = Ordered(index, DOMAIN index)
  BY MappingByIndex
<1>2. /\ entries[i] \in DOMAIN index /\ index[entries[i]] = i
      /\ \A k \in DOMAIN index : index[k] \in DOMAIN entries /\ entries[index[k]] = k
      /\ DOMAIN entries \subseteq Nat
  BY DEF EntriesIndexed, IndexSound, TypeOK
<1>3. ASSUME \A j \in DOMAIN entries : i <= j PROVE entries[i] \in Abstract!Oldest
  <2>1. ASSUME NEW k \in DOMAIN index \ {entries[i]} PROVE i < index[k]
    BY <1>2, <1>3
  <2> QED
    BY <1>1, <1>2, <2>1 DEF Abstract!Oldest, Ordered
<1>4. ASSUME entries[i] \in Abstract!Oldest PROVE \A j \in DOMAIN entries : i <= j
  <2> TAKE j \in DOMAIN entries
  <2>1. CASE entries[j] = entries[i]
    BY <1>2, <2>1 DEF EntriesIndexed
  <2>2. CASE entries[j] # entries[i]
    <3>1. entries[j] \in DOMAIN index /\ index[entries[j]] = j
      BY DEF EntriesIndexed
    <3>2. <<entries[i], entries[j]>> \in olderBar
      BY <1>1, <1>4, <2>2, <3>1 DEF Abstract!Oldest
    <3>3. i < j
      BY <1>1, <1>2, <3>1, <3>2 DEF Ordered
    <3> QED
      BY <1>2, <3>3
  <2> QED
    BY <2>1, <2>2
<1> QED
  BY <1>3, <1>4

\* A message that is pushed comes behind those that stay.
LEMMA PushArrives ==
    ASSUME IInv, IInv', NEW k \in Keys, k \notin DOMAIN index,
           NEW gone \in SUBSET DOMAIN entries, PushAfterEvicting(k, gone)
    PROVE  Abstract!Arrive(k, heldBar \ {entries[i] : i \in gone})
<1> DEFINE S == heldBar \ {entries[i] : i \in gone}
<1>1. heldBar = DOMAIN index /\ olderBar = Ordered(index, DOMAIN index)
  BY MappingByIndex
<1>2. heldBar' = DOMAIN index' /\ olderBar' = Ordered(index', DOMAIN index')
  BY MappingByIndexNext
<1>3. /\ DOMAIN index' = S \cup {k} /\ index'[k] = nextId
      /\ \A x \in S : index'[x] = index[x]
  BY <1>1 DEF PushAfterEvicting, With, Without
<1>4. \A x \in S : index[x] \in Nat /\ index[x] < nextId
  BY <1>1 DEF IInv, IndexConsistent, IndexSound, IdsBelowNext, TypeOK
<1>5. nextId \in Nat /\ S \subseteq DOMAIN index /\ k \notin S
  BY <1>1 DEF IInv, TypeOK
<1> HIDE DEF S
<1>6. olderBar' = (olderBar \cap (S \X S)) \cup (S \X {k})
  <2>1. olderBar' = Ordered(index', S \cup {k})
    BY <1>2, <1>3
  <2>2. ASSUME NEW p \in (S \cup {k}) \X (S \cup {k})
        PROVE  index'[p[1]] < index'[p[2]] <=>
                 \/ p \in S \X S /\ index[p[1]] < index[p[2]]
                 \/ p \in S \X {k}
    <3>1. p = <<p[1], p[2]>> /\ p[1] \in S \cup {k} /\ p[2] \in S \cup {k}
      OBVIOUS
    <3>2. CASE p[1] = k
      <4>1. index'[p[2]] \in Nat /\ index'[p[2]] <= nextId
        BY <3>1, <1>3, <1>4, <1>5
      <4>2. ~(index'[p[1]] < index'[p[2]])
        BY <3>2, <4>1, <1>3, <1>5
      <4> QED
        BY <3>1, <3>2, <4>2, <1>5
    <3>3. CASE p[1] \in S /\ p[2] = k
      BY <3>1, <3>3, <1>3, <1>4, <1>5
    <3>4. CASE p[1] \in S /\ p[2] \in S
      BY <3>1, <3>4, <1>3, <1>5
    <3> QED
      BY <3>1, <3>2, <3>3, <3>4
  <2>3. olderBar \cap (S \X S) = {p \in S \X S : index[p[1]] < index[p[2]]}
    BY <1>1, <1>5 DEF Ordered
  <2> QED
    BY <2>1, <2>2, <2>3 DEF Ordered
<1> QED
  BY <1>1, <1>2, <1>3, <1>6 DEF Abstract!Arrive, S

\* Messages that are removed leave the others in their order.
LEMMA RemovalKeeps ==
    ASSUME IInv, IInv', NEW lost, index' = Without(index, lost)
    PROVE  Abstract!Keep(heldBar \ lost)
<1> DEFINE S == heldBar \ lost
<1>1. heldBar = DOMAIN index /\ olderBar = Ordered(index, DOMAIN index)
  BY MappingByIndex
<1>2. heldBar' = DOMAIN index' /\ olderBar' = Ordered(index', DOMAIN index')
  BY MappingByIndexNext
<1>3. DOMAIN index' = S /\ S \subseteq DOMAIN index /\ \A x \in S : index'[x] = index[x]
  BY <1>1 DEF Without
<1> HIDE DEF S
<1>4. olderBar' = olderBar \cap (S \X S)
  BY <1>1, <1>2, <1>3 DEF Ordered
<1> QED
  BY <1>2, <1>3, <1>4 DEF Abstract!Keep, S

LEMMA InitRefines == Init => Abstract!Init
  BY DEF Init, Abstract!Init, heldBar, olderBar

LEMMA NextRefines == IInv /\ IInv' /\ [Next]_vars => [Abstract!Next]_<<heldBar, olderBar>>
<1> SUFFICES ASSUME IInv, IInv', [Next]_vars PROVE [Abstract!Next]_<<heldBar, olderBar>>
  OBVIOUS
<1>1. heldBar = DOMAIN index
  BY MappingByIndex
<1>2. ASSUME NEW k \in Keys, NEW maxLen \in MaxLens, Enqueue(k, maxLen)
      PROVE  Abstract!Send(k, maxLen)
  <2> DEFINE gone == Evicted(maxLen)
  <2>1. gone \in SUBSET DOMAIN entries
    BY DEF Evicted
  <2>2. Abstract!Arrive(k, heldBar \ {entries[i] : i \in gone})
    BY <1>2, <2>1, PushArrives DEF Enqueue
  <2>3. heldBar \ {entries[i] : i \in gone} =
          IF Cardinality(heldBar) < maxLen THEN heldBar ELSE heldBar \ Abstract!Oldest
    <3>1. CASE Cardinality(heldBar) < maxLen
      <4>1. gone = {}
        BY <3>1, AsManyEntries DEF Evicted
      <4> QED
        BY <3>1, <4>1
    <3>2. CASE ~(Cardinality(heldBar) < maxLen)
      <4>1. gone = {i \in DOMAIN entries : \A j \in DOMAIN entries : i <= j}
        BY <3>2, AsManyEntries DEF Evicted
      <4>2. \A i \in DOMAIN entries : i \in gone <=> entries[i] \in Abstract!Oldest
        BY <4>1, EvictedIsOldest
      <4>3. \A x \in heldBar : x \in {entries[i] : i \in gone} <=> x \in Abstract!Oldest
        BY <4>1, <4>2 DEF heldBar
      <4> QED
        BY <3>2, <4>3
    <3> QED
      BY <3>1, <3>2
  <2> HIDE DEF gone
  <2> QED
    BY <2>2, <2>3, SameCardinality DEF Abstract!Send, Abstract!Arrive
<1>3. ASSUME NEW k \in Keys, PushExisting(k)
      PROVE  Abstract!Adopt(k)
  <2>1. Abstract!Arrive(k, heldBar \ {entries[i] : i \in {}})
    BY <1>3, PushArrives DEF PushExisting
  <2>2. heldBar \ {entries[i] : i \in {}} = heldBar
    OBVIOUS
  <2> QED
    BY <2>1, <2>2 DEF Abstract!Adopt
<1>4. ASSUME NEW k \in Keys, Ack(k)
      PROVE  Abstract!Acknowledge(k)
  <2>1. k \in DOMAIN index /\ index' = Without(index, {k})
    BY <1>4 DEF Ack
  <2>2. Abstract!Keep(heldBar \ {k})
    BY <2>1, RemovalKeeps
  <2> QED
    BY <1>1, <2>1, <2>2 DEF Abstract!Acknowledge
<1>5. ASSUME NEW s \in SubIds, RemoveSubscription(s)
      PROVE  Abstract!Forget(s)
  <2> DEFINE gone == bySubscription[s] \cap DOMAIN entries
             lost == {entries[i] : i \in gone}
  <2>1. s \in DOMAIN bySubscription /\ index' = Without(index, lost)
    BY <1>5 DEF RemoveSubscription
  <2>2. gone = {i \in DOMAIN entries : entries[i][1] = s}
    BY <2>1 DEF IInv, IndexConsistent, SubscriptionsIndexed
  <2>3. heldBar \ lost = {k \in heldBar : k[1] # s}
    BY <2>2 DEF heldBar
  <2> HIDE DEF lost
  <2>4. Abstract!Keep(heldBar \ lost)
    BY <2>1, RemovalKeeps
  <2> QED
    BY <2>3, <2>4 DEF Abstract!Forget
<1>6. CASE UNCHANGED vars
  BY <1>6 DEF vars, heldBar, olderBar
<1> QED
  BY <1>2, <1>3, <1>4, <1>5, <1>6 DEF Next, Abstract!Next, Keys

\* The queue implements what a session promises of unacknowledged messages: none is
\* lost but by acknowledgement, by the end of its subscription, or as the oldest of
\* a full queue (enqueue, push_existing, ack and remove_subscription).
THEOREM QueueImplementsUnacked == Spec => ImplementsUnacked
<1>1. Spec => []IInv
  BY InitEstablishes, NextPreserves, PTL DEF Spec
<1> QED
  BY <1>1, InitRefines, NextRefines, PTL DEF Spec, ImplementsUnacked, Abstract!Spec, Abstract!vars
=============================================================================
