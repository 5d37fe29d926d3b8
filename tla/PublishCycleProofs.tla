------------------------- MODULE PublishCycleProofs --------------------------
(***************************************************************************)
(* Safety of PublishCycle for every value of the limits, every set of      *)
(* settings and any interference of other subscriptions.                   *)
(***************************************************************************)
EXTENDS PublishCycle, FiniteSetTheorems, TLAPS

-----------------------------------------------------------------------------
(***************************************************************************)
(* The operators of Subscription: what each of them does to the types, to  *)
(* the sequence numbers and to the message queue, for every value of the   *)
(* limits.  Sequence numbers come first.                                   *)
(***************************************************************************)
LEMMA SeqNumberRange == 1 \in SeqNumber /\ SeqNumber \subseteq Nat \ {0} /\ U32Max \in Nat \ {0}
  BY SubscriptionAssumption DEF SeqNumber

\* Handle::next stays within 1..u32::MAX.
LEMMA NextHandleType == ASSUME NEW n \in SeqNumber PROVE NextHandle(n) \in SeqNumber
  BY SubscriptionAssumption DEF NextHandle, SeqNumber

\* So does the handle after i calls of next.
LEMMA HandleAfterType ==
    ASSUME NEW n \in SeqNumber, NEW i \in 0..U32Max PROVE HandleAfter(n, i) \in SeqNumber
  BY SubscriptionAssumption DEF HandleAfter, SeqNumber

\* No call of next, no change.
LEMMA HandleAfterZero == ASSUME NEW n \in SeqNumber PROVE HandleAfter(n, 0) = n
  BY SubscriptionAssumption DEF HandleAfter, SeqNumber

\* One more call of next.
LEMMA HandleAfterStep ==
    ASSUME NEW n \in SeqNumber, NEW i \in 0..U32Max, i < U32Max
    PROVE  NextHandle(HandleAfter(n, i)) = HandleAfter(n, i + 1)
  BY SubscriptionAssumption DEF HandleAfter, NextHandle, SeqNumber

\* A tick makes no more messages than it has notifications.
LEMMA MessageCountBound ==
    ASSUME NEW n \in Nat, NEW p PROVE MessageCount(n, p) \in 0..n
<1> DEFINE Cuts == {i \in 1..n : i = n \/ (p > 0 /\ i % p = 0)}
<1>1. IsFiniteSet(1..n) /\ Cardinality(1..n) = n
  <2>1. n = 0 \/ n >= 1
    OBVIOUS
  <2>2. IsFiniteSet(1..n) /\ Cardinality(1..n) = IF 1 > n THEN 0 ELSE (n - 1) + 1
    BY FS_Interval
  <2> QED
    BY <2>1, <2>2
<1>2. Cardinality(Cuts) \in Nat /\ Cardinality(Cuts) <= Cardinality(1..n)
  BY <1>1, FS_Subset, FS_CardinalityType
<1> QED
  BY <1>1, <1>2 DEF MessageCount

-----------------------------------------------------------------------------
(***************************************************************************)
(* Message queues.                                                         *)
(***************************************************************************)
\* The messages of q follow one another and e follows the last.
Chain(q, e) ==
    \A i \in 1..Len(q) : Following(q[i]) = IF i = Len(q) THEN e ELSE q[i + 1].seq

\* The number q begins with, e when it is empty.
Start(q, e) == IF q = <<>> THEN e ELSE q[1].seq

\* Two chains of which the second continues the first make one chain.
LEMMA ChainConcat ==
    ASSUME NEW q \in Seq(NotificationMessage), NEW m \in Seq(NotificationMessage), NEW e,
           Chain(q, Start(m, e)), Chain(m, e)
    PROVE  Chain(q \o m, e) /\ Start(q \o m, e) = Start(q, Start(m, e))
<1>1. /\ Len(q \o m) = Len(q) + Len(m)
      /\ \A i \in 1..Len(q) : (q \o m)[i] = q[i]
      /\ \A i \in 1..Len(m) : (q \o m)[Len(q) + i] = m[i]
  OBVIOUS
<1>2. Start(q \o m, e) = Start(q, Start(m, e))
  BY <1>1 DEF Start
<1>3. ASSUME NEW i \in 1..Len(q \o m)
      PROVE  Following((q \o m)[i]) = IF i = Len(q \o m) THEN e ELSE (q \o m)[i + 1].seq
  <2>1. CASE i < Len(q)
    BY <1>1, <2>1 DEF Chain
  <2>2. CASE i = Len(q)
    BY <1>1, <2>2 DEF Chain, Start
  <2>3. CASE i > Len(q)
    <3> DEFINE j == i - Len(q)
    <3>1. j \in 1..Len(m) /\ (q \o m)[i] = m[j]
      BY <1>1, <2>3
    <3>2. j < Len(m) => (q \o m)[i + 1] = m[j + 1]
      BY <1>1, <2>3
    <3>3. (i = Len(q \o m)) <=> (j = Len(m))
      BY <1>1, <2>3
    <3>4. j # Len(m) => j < Len(m)
      BY <3>1
    <3> HIDE DEF j
    <3>5. Following(m[j]) = IF j = Len(m) THEN e ELSE m[j + 1].seq
      BY <3>1 DEF Chain
    <3> QED
      BY <3>1, <3>2, <3>3, <3>4, <3>5
  <2> QED
    BY <2>1, <2>2, <2>3
<1> QED
  BY <1>2, <1>3 DEF Chain

\* A chain without its first n messages is a chain: dropping the oldest messages
\* leaves no hole behind.
LEMMA ChainSuffix ==
    ASSUME NEW q \in Seq(NotificationMessage), NEW e, NEW n \in 0..Len(q), Chain(q, e)
    PROVE  LET r == SubSeq(q, n + 1, Len(q))
           IN  /\ r \in Seq(NotificationMessage)
               /\ Len(r) = Len(q) - n
               /\ \A i \in 1..Len(r) : r[i] = q[n + i]
               /\ Chain(r, e)
               /\ n > 0 => Start(r, e) = Following(q[n])
<1> DEFINE r == SubSeq(q, n + 1, Len(q))
<1>1. /\ r \in Seq(NotificationMessage)
      /\ Len(r) = Len(q) - n
      /\ \A i \in 1..Len(r) : r[i] = q[n + i]
  OBVIOUS
<1> HIDE DEF r
<1>2. ASSUME NEW i \in 1..Len(r)
      PROVE  Following(r[i]) = IF i = Len(r) THEN e ELSE r[i + 1].seq
  <2>1. n + i \in 1..Len(q) /\ (n + i = Len(q) <=> i = Len(r))
    BY <1>1
  <2>2. Following(q[n + i]) = IF n + i = Len(q) THEN e ELSE q[(n + i) + 1].seq
    BY <2>1 DEF Chain
  <2>3. i # Len(r) => r[i + 1] = q[(n + i) + 1]
    <3>1. i # Len(r) => i + 1 \in 1..Len(r) /\ n + (i + 1) = (n + i) + 1
      BY <1>1
    <3> QED
      BY <1>1, <3>1
  <2> QED
    BY <1>1, <2>1, <2>2, <2>3
<1>3. n > 0 => Start(r, e) = Following(q[n])
  BY <1>1 DEF Chain, Start
<1> QED
  BY <1>1, <1>2, <1>3 DEF r, Chain

\* enqueue_notification and enforce_queued_notification_limit: a well-formed queue
\* stays one, only the queue and the count of discarded messages change, and the
\* queue begins where it did unless a message was discarded and counted.
LEMMA EnqueueFacts ==
    ASSUME NEW s \in SubscriptionRecord, NEW m \in Seq(NotificationMessage),
           Chain(s.queue, Start(m, s.seq)), Chain(m, s.seq)
    PROVE  LET t == EnqueueMessages(s, m)
           IN  /\ t \in SubscriptionRecord
               /\ t = [s EXCEPT !.queue = t.queue, !.discarded = t.discarded]
               /\ Contiguous(t)
               /\ t.discarded = 0 =>
                    s.discarded = 0 /\ OldestSeq(t) = Start(s.queue, Start(m, s.seq))
               /\ m # <<>> => t.queue # <<>> /\ t.queue[Len(t.queue)] = m[Len(m)]
<1> DEFINE all == s.queue \o m
           dropped == IF MaxQueued = 0 \/ Len(all) <= MaxQueued THEN 0 ELSE Len(all) - MaxQueued
           kept == SubSeq(all, dropped + 1, Len(all))
           count == IF s.discarded + dropped > U32Max THEN U32Max ELSE s.discarded + dropped
           t == EnqueueMessages(s, m)
<1>1. /\ s.queue \in Seq(NotificationMessage) /\ s.discarded \in 0..U32Max
      /\ s.seq \in SeqNumber
  BY DEF SubscriptionRecord
<1>2. all \in Seq(NotificationMessage) /\ Len(all) = Len(s.queue) + Len(m)
  BY <1>1
<1>3. Chain(all, s.seq) /\ Start(all, s.seq) = Start(s.queue, Start(m, s.seq))
  BY <1>1, ChainConcat
<1>4. m # <<>> => Len(m) > 0 /\ all[Len(all)] = m[Len(m)]
  BY <1>1, <1>2
<1> HIDE DEF all
<1>5. /\ dropped \in 0..Len(all)
      /\ Len(all) > 0 => dropped < Len(all)
  BY <1>2, SubscriptionAssumption
<1>6. count \in 0..U32Max /\ (count = 0 => s.discarded = 0 /\ dropped = 0)
  BY <1>1, <1>5, SubscriptionAssumption
<1> HIDE DEF dropped
<1>7. /\ kept \in Seq(NotificationMessage)
      /\ Len(kept) = Len(all) - dropped
      /\ \A i \in 1..Len(kept) : kept[i] = all[dropped + i]
      /\ Chain(kept, s.seq)
  BY <1>2, <1>3, <1>5, ChainSuffix
<1>8. dropped = 0 => kept = all
  BY <1>2
<1>9. m # <<>> => kept # <<>> /\ kept[Len(kept)] = all[Len(all)]
  <2> SUFFICES ASSUME m # <<>> PROVE kept # <<>> /\ kept[Len(kept)] = all[Len(all)]
    OBVIOUS
  <2>1. Len(kept) \in 1..Len(kept) /\ dropped + Len(kept) = Len(all)
    BY <1>1, <1>2, <1>4, <1>5, <1>7
  <2> HIDE DEF kept
  <2> QED
    BY <1>7, <2>1
<1>10. t = [s EXCEPT !.queue = kept, !.discarded = count]
  BY DEF EnqueueMessages, all, dropped
<1> HIDE DEF kept, count, t
<1>11. t.queue = kept /\ t.discarded = count /\ t.seq = s.seq /\ t \in SubscriptionRecord
  BY <1>6, <1>7, <1>10 DEF SubscriptionRecord
<1>12. Contiguous(t)
  BY <1>7, <1>11 DEF Contiguous, Chain
<1>13. OldestSeq(t) = Start(kept, s.seq)
  BY <1>11 DEF OldestSeq, Start
<1> QED
  BY <1>3, <1>4, <1>6, <1>8, <1>9, <1>10, <1>11, <1>12, <1>13 DEF t

-----------------------------------------------------------------------------
(***************************************************************************)
(* Subscription::tick.                                                     *)
(***************************************************************************)
\* The data messages of one tick are numbered from seq without a gap.
LEMMA DataMessagesChain ==
    ASSUME NEW seq \in SeqNumber, NEW n \in 0..MaxItems
    PROVE  LET m == DataMessages(seq, n)
           IN  /\ m \in Seq(NotificationMessage)
               /\ Chain(m, HandleAfter(seq, n))
               /\ Start(m, HandleAfter(seq, n)) = seq
<1> DEFINE m == DataMessages(seq, n)
<1>1. n \in Nat /\ n < U32Max
  BY SubscriptionAssumption
<1>2. ASSUME NEW i \in 1..n
      PROVE  i - 1 \in 0..U32Max /\ i - 1 < U32Max /\ HandleAfter(seq, i - 1) \in SeqNumber
  <2>1. i - 1 \in 0..U32Max /\ i - 1 < U32Max
    BY <1>1, SubscriptionAssumption
  <2> QED
    BY <2>1, HandleAfterType
<1>3. m = [i \in 1..n |-> [kind |-> "data", seq |-> HandleAfter(seq, i - 1)]]
  BY DEF DataMessages
<1> HIDE DEF m
<1>4. /\ m \in Seq(NotificationMessage)
      /\ Len(m) = n
      /\ \A i \in 1..n : m[i].kind = "data" /\ m[i].seq = HandleAfter(seq, i - 1)
  BY <1>1, <1>2, <1>3 DEF NotificationMessage
<1>5. ASSUME NEW i \in 1..Len(m)
      PROVE  Following(m[i]) = IF i = Len(m) THEN HandleAfter(seq, n) ELSE m[i + 1].seq
  <2>1. NextHandle(HandleAfter(seq, i - 1)) = HandleAfter(seq, (i - 1) + 1)
    BY <1>2, <1>4, HandleAfterStep
  <2>2. (i - 1) + 1 = i /\ (i + 1) - 1 = i /\ (i # n => i + 1 \in 1..n)
    BY <1>1, <1>4
  <2>3. Following(m[i]) = HandleAfter(seq, i)
    BY <1>4, <2>1, <2>2 DEF Following
  <2> QED
    BY <1>4, <2>2, <2>3
<1>6. Start(m, HandleAfter(seq, n)) = seq
  <2>1. CASE n = 0
    BY <1>4, <2>1, HandleAfterZero DEF Start
  <2>2. CASE n # 0
    <3>1. 1 \in 1..n /\ 1 - 1 = 0
      BY <1>1, <2>2
    <3> QED
      BY <1>4, <3>1, HandleAfterZero DEF Start
  <2> QED
    BY <2>1, <2>2
<1> QED
  BY <1>4, <1>5, <1>6 DEF Chain, m

\* A keep-alive is due to be counted down only while the counter exceeds one, and
\* a closed subscription takes no row of the table.
LEMMA TransitionFacts ==
    ASSUME NEW s \in SubscriptionRecord, NEW reason \in TickReason, NEW req \in BOOLEAN
    PROVE  LET t == GetStateTransition(s, reason, req)
           IN  /\ t = "KeepAlive16" => s.keepAlive > 1
               /\ s.state = "Closed" => t = "None0"
               /\ t = "Closed27" => s.lifetime <= 1 /\ reason = "TickTimerFired"
<1>1. s.state \in SubscriptionState
  BY DEF SubscriptionRecord
<1> QED
  BY <1>1 DEF GetStateTransition, NormalTransition, LateTransition, KeepAliveTransition,
              ExpiredOrNone, SubscriptionState

\* A row of the table changes the state, the counters and the flag, nothing else.
LEMMA HandleStateTransitionFacts ==
    ASSUME NEW s \in SubscriptionRecord, NEW t, t = "KeepAlive16" => s.keepAlive > 1
    PROVE  LET h == HandleStateTransition(s, t)
           IN  /\ h \in SubscriptionRecord
               /\ h.state = StateAfter(s, t)
               /\ h.queue = s.queue /\ h.seq = s.seq /\ h.discarded = s.discarded
               /\ h.values = s.values /\ h.pending = s.pending
               /\ h.settings = s.settings
<1>1. /\ s.state \in SubscriptionState /\ s.settings \in Settings
      /\ s.lifetime \in Nat /\ s.keepAlive \in Nat /\ s.first \in BOOLEAN
  BY DEF SubscriptionRecord
<1>2. StateAfter(s, t) \in SubscriptionState
  BY <1>1 DEF StateAfter, SubscriptionState
<1>3. s.settings.lifetime \in Nat /\ s.settings.keepAlive \in Nat
  BY <1>1 DEF Settings
<1>4. LifetimeAfter(s, t) \in Nat
  BY <1>1, <1>3 DEF LifetimeAfter
<1>5. KeepAliveAfter(s, t) \in Nat
  BY <1>1, <1>3 DEF KeepAliveAfter
<1>6. FirstAfter(s, t) \in BOOLEAN
  BY DEF FirstAfter
<1> QED
  BY <1>2, <1>4, <1>5, <1>6 DEF HandleStateTransition, SubscriptionRecord

\* The three ways a tick queues messages.
LEMMA ReturnKeepAliveFacts ==
    ASSUME NEW s \in SubscriptionRecord, Contiguous(s)
    PROVE  LET t == ReturnKeepAlive(s)
           IN  /\ t \in SubscriptionRecord /\ Contiguous(t)
               /\ t.discarded = 0 => s.discarded = 0 /\ OldestSeq(t) = OldestSeq(s)
               /\ t.state = s.state /\ t.values = s.values /\ t.pending = s.pending
<1> DEFINE m == <<[kind |-> "keepAlive", seq |-> s.seq]>>
<1>1. s.seq \in SeqNumber
  BY DEF SubscriptionRecord
<1>2. /\ m \in Seq(NotificationMessage) /\ Len(m) = 1 /\ m # <<>>
      /\ m[1].kind = "keepAlive" /\ m[1].seq = s.seq
  BY <1>1 DEF NotificationMessage
<1>3. ReturnKeepAlive(s) = EnqueueMessages(s, m)
  BY DEF ReturnKeepAlive
<1> HIDE DEF m
<1>4. Chain(m, s.seq) /\ Start(m, s.seq) = s.seq
  BY <1>2 DEF Chain, Following, Start
<1>5. Chain(s.queue, s.seq) /\ OldestSeq(s) = Start(s.queue, s.seq)
  BY DEF Contiguous, Chain, OldestSeq, Start
<1> DEFINE t == EnqueueMessages(s, m)
<1>6. /\ t \in SubscriptionRecord
      /\ t = [s EXCEPT !.queue = t.queue, !.discarded = t.discarded]
      /\ Contiguous(t)
      /\ t.discarded = 0 => s.discarded = 0 /\ OldestSeq(t) = Start(s.queue, Start(m, s.seq))
  BY <1>2, <1>4, <1>5, EnqueueFacts
<1> HIDE DEF t
<1>7. t.state = s.state /\ t.values = s.values /\ t.pending = s.pending
  BY <1>6 DEF SubscriptionRecord
<1> QED
  BY <1>3, <1>4, <1>5, <1>6, <1>7 DEF t

\* Queueing the collected notifications of a tick keeps the queue contiguous and
\* counts what it discards.
LEMMA ReturnNotificationsFacts ==
    ASSUME NEW s \in SubscriptionRecord, Contiguous(s)
    PROVE  LET t == ReturnNotifications(s)
           IN  /\ t \in SubscriptionRecord /\ Contiguous(t)
               /\ t.discarded = 0 => s.discarded = 0 /\ OldestSeq(t) = OldestSeq(s)
               /\ t.state = s.state /\ t.values = s.values
               /\ t.pending \in {0, s.pending}
<1> DEFINE c == CollectedNotifications(s)
           n == MessageCount(c, s.settings.perPublish)
           m == DataMessages(s.seq, n)
           u == [s EXCEPT !.resend = FALSE,
                          !.notified = s.resend /\ s.notified,
                          !.pending = IF s.resend \/ s.notified THEN 0 ELSE s.pending,
                          !.seq = HandleAfter(s.seq, n)]
           t == EnqueueMessages(u, m)
<1>1. /\ s.seq \in SeqNumber /\ s.values \in 0..MaxItems /\ s.pending \in 0..MaxItems
      /\ s.resend \in BOOLEAN /\ s.notified \in BOOLEAN
  BY DEF SubscriptionRecord
<1>2. c \in 0..MaxItems
  BY <1>1, SubscriptionAssumption DEF CollectedNotifications
<1> HIDE DEF c
<1>3. n \in 0..MaxItems
  BY <1>2, MessageCountBound, SubscriptionAssumption
<1>4. ReturnNotifications(s) = t
  BY DEF ReturnNotifications, c
<1> HIDE DEF n
<1>5. /\ m \in Seq(NotificationMessage)
      /\ Chain(m, HandleAfter(s.seq, n))
      /\ Start(m, HandleAfter(s.seq, n)) = s.seq
  BY <1>1, <1>3, DataMessagesChain
<1> HIDE DEF m
<1>6. HandleAfter(s.seq, n) \in SeqNumber
  <2>1. n \in 0..U32Max
    BY <1>3, SubscriptionAssumption
  <2> QED
    BY <1>1, <2>1, HandleAfterType
<1>7. /\ u \in SubscriptionRecord
      /\ u.queue = s.queue /\ u.seq = HandleAfter(s.seq, n) /\ u.discarded = s.discarded
      /\ u.state = s.state /\ u.values = s.values /\ u.pending \in {0, s.pending}
  <2> DEFINE p == IF s.resend \/ s.notified THEN 0 ELSE s.pending
             b == s.resend /\ s.notified
  <2>1. p \in 0..MaxItems /\ p \in {0, s.pending}
    BY <1>1, SubscriptionAssumption
  <2>2. b \in BOOLEAN
    OBVIOUS
  <2>3. u = [s EXCEPT !.resend = FALSE, !.notified = b, !.pending = p,
                      !.seq = HandleAfter(s.seq, n)]
    OBVIOUS
  <2> HIDE DEF p, b, u
  <2> QED
    BY <2>1, <2>2, <2>3, <1>6 DEF SubscriptionRecord
<1> HIDE DEF u
<1>8. Chain(s.queue, s.seq) /\ OldestSeq(s) = Start(s.queue, s.seq)
  BY DEF Contiguous, Chain, OldestSeq, Start
<1>9. /\ t \in SubscriptionRecord
      /\ t = [u EXCEPT !.queue = t.queue, !.discarded = t.discarded]
      /\ Contiguous(t)
      /\ t.discarded = 0 => u.discarded = 0 /\ OldestSeq(t) = Start(u.queue, Start(m, u.seq))
  BY <1>5, <1>7, <1>8, EnqueueFacts
<1> HIDE DEF t
<1>10. t.state = u.state /\ t.values = u.values /\ t.pending = u.pending
  BY <1>7, <1>9 DEF SubscriptionRecord
<1> QED
  BY <1>4, <1>5, <1>7, <1>8, <1>9, <1>10

\* Expiry keeps the queue contiguous and ends it with the status change.
LEMMA ExpireFacts ==
    ASSUME NEW s \in SubscriptionRecord, Contiguous(s)
    PROVE  LET t == Expire(s)
           IN  /\ t \in SubscriptionRecord /\ Contiguous(t)
               /\ t.discarded = 0 => s.discarded = 0 /\ OldestSeq(t) = OldestSeq(s)
               /\ t.state = s.state /\ t.values = 0 /\ t.pending = 0
               /\ t.queue # <<>> /\ t.queue[Len(t.queue)].kind = "statusChange"
<1> DEFINE m == <<[kind |-> "statusChange", seq |-> s.seq]>>
           u == [s EXCEPT !.values = 0, !.pending = 0, !.seq = NextHandle(s.seq)]
           t == EnqueueMessages(u, m)
<1>1. s.seq \in SeqNumber /\ NextHandle(s.seq) \in SeqNumber
  BY NextHandleType DEF SubscriptionRecord
<1>2. /\ m \in Seq(NotificationMessage) /\ Len(m) = 1 /\ m # <<>>
      /\ m[1].kind = "statusChange" /\ m[1].seq = s.seq
  BY <1>1 DEF NotificationMessage
<1>3. Expire(s) = t
  BY DEF Expire
<1> HIDE DEF m
<1>4. Chain(m, NextHandle(s.seq)) /\ Start(m, NextHandle(s.seq)) = s.seq
  BY <1>2 DEF Chain, Following, Start
<1>5. Chain(s.queue, s.seq) /\ OldestSeq(s) = Start(s.queue, s.seq)
  BY DEF Contiguous, Chain, OldestSeq, Start
<1>6. /\ u \in SubscriptionRecord
      /\ u.queue = s.queue /\ u.seq = NextHandle(s.seq) /\ u.discarded = s.discarded
      /\ u.state = s.state /\ u.values = 0 /\ u.pending = 0
  <2>1. 0 \in 0..MaxItems
    BY SubscriptionAssumption
  <2> QED
    BY <1>1, <2>1 DEF SubscriptionRecord
<1> HIDE DEF u
<1>7. /\ t \in SubscriptionRecord
      /\ t = [u EXCEPT !.queue = t.queue, !.discarded = t.discarded]
      /\ Contiguous(t)
      /\ t.discarded = 0 => u.discarded = 0 /\ OldestSeq(t) = Start(u.queue, Start(m, u.seq))
      /\ t.queue # <<>> /\ t.queue[Len(t.queue)] = m[Len(m)]
  <2>1. Chain(u.queue, Start(m, u.seq)) /\ Chain(m, u.seq)
    BY <1>4, <1>5, <1>6
  <2>2. u \in SubscriptionRecord /\ m \in Seq(NotificationMessage) /\ m # <<>>
    BY <1>2, <1>6
  <2> QED
    BY <2>1, <2>2, EnqueueFacts
<1> HIDE DEF t
<1>8. t.state = u.state /\ t.values = u.values /\ t.pending = u.pending
  BY <1>6, <1>7 DEF SubscriptionRecord
<1> QED
  BY <1>2, <1>3, <1>4, <1>5, <1>6, <1>7, <1>8

\* A tick keeps the queue well formed and begins it where it began, unless a
\* discarded message is counted.
LEMMA TickFacts ==
    ASSUME NEW s \in SubscriptionRecord, Contiguous(s), s.pending <= s.values,
           NEW reason \in TickReason, NEW req \in BOOLEAN
    PROVE  LET t == Tick(s, reason, req)
           IN  /\ t \in SubscriptionRecord /\ Contiguous(t)
               /\ t.discarded = 0 => s.discarded = 0 /\ OldestSeq(t) = OldestSeq(s)
               /\ t.pending <= t.values
               /\ s.state = "Closed" => t.state = "Closed" /\ t.queue = s.queue
               /\ s.state # "Closed" /\ t.state = "Closed" =>
                    t.queue # <<>> /\ t.queue[Len(t.queue)].kind = "statusChange"
<1> DEFINE r == GetStateTransition(s, reason, req)
           h == HandleStateTransition(s, r)
           t == Tick(s, reason, req)
<1>1. /\ r = "KeepAlive16" => s.keepAlive > 1
      /\ s.state = "Closed" => r = "None0"
  BY TransitionFacts
<1>2. t = IF r \in ReturnsKeepAlive THEN ReturnKeepAlive(h)
          ELSE IF r \in ReturnsNotifications THEN ReturnNotifications(h)
          ELSE IF r = "Closed27" THEN Expire(h)
          ELSE h
  BY DEF Tick
<1> HIDE DEF r, t
<1>3. /\ h \in SubscriptionRecord
      /\ h.state = StateAfter(s, r)
      /\ h.queue = s.queue /\ h.seq = s.seq /\ h.discarded = s.discarded
      /\ h.values = s.values /\ h.pending = s.pending
  BY <1>1, HandleStateTransitionFacts
<1> HIDE DEF h
<1>4. Contiguous(h) /\ OldestSeq(h) = OldestSeq(s)
  BY <1>3 DEF Contiguous, OldestSeq
<1>5. s.pending \in Nat /\ s.values \in Nat /\ s.state \in SubscriptionState
  BY SubscriptionAssumption DEF SubscriptionRecord
<1>6. h.state = "Closed" <=> (r = "Closed27" \/ s.state = "Closed")
  BY <1>1, <1>3 DEF StateAfter
<1>7. CASE r \in ReturnsKeepAlive
  <2>1. t = ReturnKeepAlive(h)
    BY <1>2, <1>7
  <2>2. r # "None0" /\ r # "Closed27"
    BY <1>7 DEF ReturnsKeepAlive
  <2>3. /\ t \in SubscriptionRecord /\ Contiguous(t)
        /\ t.discarded = 0 => h.discarded = 0 /\ OldestSeq(t) = OldestSeq(h)
        /\ t.state = h.state /\ t.values = h.values /\ t.pending = h.pending
    BY <2>1, <1>3, <1>4, ReturnKeepAliveFacts
  <2> QED
    BY <2>2, <2>3, <1>1, <1>3, <1>4, <1>6 DEF t
<1>8. CASE r \in ReturnsNotifications
  <2>1. r # "None0" /\ r # "Closed27" /\ r \notin ReturnsKeepAlive
    BY <1>8 DEF ReturnsNotifications, ReturnsKeepAlive
  <2>2. t = ReturnNotifications(h)
    BY <1>2, <1>8, <2>1
  <2>3. /\ t \in SubscriptionRecord /\ Contiguous(t)
        /\ t.discarded = 0 => h.discarded = 0 /\ OldestSeq(t) = OldestSeq(h)
        /\ t.state = h.state /\ t.values = h.values /\ t.pending \in {0, h.pending}
    BY <2>2, <1>3, <1>4, ReturnNotificationsFacts
  <2>4. t.pending <= t.values
    BY <2>3, <1>3, <1>5
  <2> QED
    BY <2>1, <2>3, <2>4, <1>1, <1>3, <1>4, <1>6 DEF t
<1>9. CASE r = "Closed27"
  <2>1. r \notin ReturnsKeepAlive /\ r \notin ReturnsNotifications
    BY <1>9 DEF ReturnsNotifications, ReturnsKeepAlive
  <2>2. t = Expire(h)
    BY <1>2, <1>9, <2>1
  <2>3. /\ t \in SubscriptionRecord /\ Contiguous(t)
        /\ t.discarded = 0 => h.discarded = 0 /\ OldestSeq(t) = OldestSeq(h)
        /\ t.state = h.state /\ t.values = 0 /\ t.pending = 0
        /\ t.queue # <<>> /\ t.queue[Len(t.queue)].kind = "statusChange"
    BY <2>2, <1>3, <1>4, ExpireFacts
  <2> QED
    BY <2>3, <1>1, <1>3, <1>4, <1>6, <1>9 DEF t
<1>10. CASE r \notin ReturnsKeepAlive /\ r \notin ReturnsNotifications /\ r # "Closed27"
  BY <1>2, <1>3, <1>4, <1>6, <1>10 DEF t
<1> QED
  BY <1>7, <1>8, <1>9, <1>10

\* Messages leave from the front.
LEMMA TakeNotificationsFacts ==
    ASSUME NEW s \in SubscriptionRecord, Contiguous(s), NEW n \in 0..Len(s.queue)
    PROVE  LET t == TakeNotifications(s, n)
           IN  /\ t \in SubscriptionRecord /\ Contiguous(t)
               /\ t = [s EXCEPT !.queue = t.queue]
               /\ t.queue = SubSeq(s.queue, n + 1, Len(s.queue))
               /\ Len(t.queue) = Len(s.queue) - n
               /\ n = 0 => t.queue = s.queue
               /\ n > 0 => OldestSeq(t) = Following(s.queue[n])
               /\ t.queue # <<>> => t.queue[Len(t.queue)] = s.queue[Len(s.queue)]
<1> DEFINE r == SubSeq(s.queue, n + 1, Len(s.queue))
           t == TakeNotifications(s, n)
<1>1. s.queue \in Seq(NotificationMessage) /\ Chain(s.queue, s.seq)
  BY DEF SubscriptionRecord, Contiguous, Chain
<1>2. /\ r \in Seq(NotificationMessage)
      /\ Len(r) = Len(s.queue) - n
      /\ \A i \in 1..Len(r) : r[i] = s.queue[n + i]
      /\ Chain(r, s.seq)
      /\ n > 0 => Start(r, s.seq) = Following(s.queue[n])
  BY <1>1, ChainSuffix
<1>3. n = 0 => r = s.queue
  BY <1>1
<1>4. r # <<>> => r[Len(r)] = s.queue[Len(s.queue)]
  <2> SUFFICES ASSUME r # <<>> PROVE r[Len(r)] = s.queue[Len(s.queue)]
    OBVIOUS
  <2> HIDE DEF r
  <2>1. Len(r) \in 1..Len(r) /\ n + Len(r) = Len(s.queue)
    BY <1>1, <1>2
  <2> QED
    BY <1>2, <2>1
<1>5. t = [s EXCEPT !.queue = r]
  BY DEF TakeNotifications
<1>6. t \in SubscriptionRecord /\ t.queue = r /\ t.seq = s.seq
  BY <1>2, <1>5 DEF SubscriptionRecord
<1> HIDE DEF t
<1>7. Contiguous(t) /\ OldestSeq(t) = Start(r, s.seq)
  BY <1>2, <1>6 DEF Contiguous, Chain, OldestSeq, Start
<1> QED
  BY <1>2, <1>3, <1>4, <1>5, <1>6, <1>7 DEF t

-----------------------------------------------------------------------------
(***************************************************************************)
(* The parts of the invariant that speak of a subscription and of what its *)
(* client expects, as they are handed from one cycle to the next.          *)
(***************************************************************************)
\* A subscription as the rest of the session may leave it.
Sound(s, e) ==
    /\ s \in SubscriptionRecord
    /\ Contiguous(s)
    /\ s.pending <= s.values
    /\ e \in SeqNumber
    /\ s.discarded = 0 => OldestSeq(s) = e
    /\ s.state = "Closed" /\ s.queue # <<>> => s.queue[Len(s.queue)].kind = "statusChange"

\* NoSilentGap and ClosedEndsWithStatusChange need the queue to be contiguous and
\* the items to be counted right; NotLateWithRequests needs nothing else.
IInv ==
    /\ TypeOK
    /\ Sound(sub, expected)
    /\ NoMessageWaitsForRequest
    /\ NotLateWithRequests
    /\ ClosedEndsWithStatusChange

\* The smaller of two counters is one of them and exceeds neither.
LEMMA SmallerFacts ==
    ASSUME NEW a \in Nat, NEW b \in Nat
    PROVE  /\ Smaller(a, b) \in Nat /\ Smaller(a, b) <= a /\ Smaller(a, b) <= b
           /\ Smaller(a, b) \in {a, b}
  BY DEF Smaller

\* Other subscriptions leave between none and all of the publish requests.
LEMMA TakenByOthersFacts ==
    ASSUME NEW n \in Nat, NEW i \in TakenByOthers(n) PROVE i \in 0..n
  BY DEF TakenByOthers

\* Only without a request does a subscription become late.
LEMMA LateFacts ==
    ASSUME NEW s \in SubscriptionRecord, NEW reason \in TickReason,
           GetStateTransition(s, reason, TRUE) \in {"IntervalElapsed8", "Late12", "KeepAlive17"}
    PROVE  s.state = "Late" /\ reason # "ReceivePublishRequest"
<1>1. s.state \in SubscriptionState
  BY DEF SubscriptionRecord
<1> QED
  BY <1>1 DEF GetStateTransition, NormalTransition, LateTransition, KeepAliveTransition,
              ExpiredOrNone, SubscriptionState, TickReason

\* A late subscription answers a publish request.
LEMMA LateAnswers ==
    ASSUME NEW s \in SubscriptionRecord, s.state = "Late"
    PROVE  GetStateTransition(s, "ReceivePublishRequest", TRUE) \in {"Late10", "Late11"}
  BY DEF GetStateTransition, LateTransition

\* The state a tick leaves, whatever it queues.
LEMMA TickState ==
    ASSUME NEW s \in SubscriptionRecord, Contiguous(s),
           NEW reason \in TickReason, NEW req \in BOOLEAN
    PROVE  Tick(s, reason, req).state = StateAfter(s, GetStateTransition(s, reason, req))
<1> DEFINE r == GetStateTransition(s, reason, req)
           h == HandleStateTransition(s, r)
<1>1. r = "KeepAlive16" => s.keepAlive > 1
  BY TransitionFacts
<1> HIDE DEF r
<1>2. /\ h \in SubscriptionRecord /\ h.state = StateAfter(s, r)
      /\ h.queue = s.queue /\ h.seq = s.seq
  BY <1>1, HandleStateTransitionFacts
<1> HIDE DEF h
<1>3. Contiguous(h)
  BY <1>2 DEF Contiguous
<1>4. /\ ReturnKeepAlive(h).state = h.state
      /\ ReturnNotifications(h).state = h.state
      /\ Expire(h).state = h.state
  BY <1>2, <1>3, ReturnKeepAliveFacts, ReturnNotificationsFacts, ExpireFacts
<1> QED
  BY <1>2, <1>4 DEF Tick, r, h

\* One cycle: the subscription stays sound, a request is left only when no message
\* is, and a late subscription is left with a request only if it was late before
\* and the cycle was not started by a publish request.
LEMMA CycleFacts ==
    ASSUME NEW s, NEW e, Sound(s, e), NEW n \in Nat, NEW reason \in TickReason
    PROVE  LET c == Cycle(s, n, e, reason)
           IN  /\ Sound(c.sub, c.expected)
               /\ c.requests \in 0..n
               /\ c.requests > 0 => c.sub.queue = <<>>
               /\ c.requests > 0 /\ c.sub.state = "Late" =>
                    s.state = "Late" /\ reason # "ReceivePublishRequest"
<1> DEFINE req == n > 0
           t == Tick(s, reason, req)
           sent == Smaller(n, Len(t.queue))
           u == TakeNotifications(t, sent)
           c == Cycle(s, n, e, reason)
<1>1. /\ c.sub = u /\ c.requests = n - sent
      /\ c.expected = (IF sent = 0 THEN e ELSE Following(t.queue[sent]))
  BY DEF Cycle
<1>2. req \in BOOLEAN /\ (req = TRUE <=> n > 0)
  OBVIOUS
<1>3. /\ s \in SubscriptionRecord /\ Contiguous(s) /\ s.pending <= s.values
  BY DEF Sound
<1> HIDE DEF req
<1>4. /\ t \in SubscriptionRecord /\ Contiguous(t)
      /\ t.discarded = 0 => s.discarded = 0 /\ OldestSeq(t) = OldestSeq(s)
      /\ t.pending <= t.values
      /\ s.state = "Closed" => t.state = "Closed" /\ t.queue = s.queue
      /\ s.state # "Closed" /\ t.state = "Closed" =>
           t.queue # <<>> /\ t.queue[Len(t.queue)].kind = "statusChange"
  BY <1>2, <1>3, TickFacts
<1>5. t.state = StateAfter(s, GetStateTransition(s, reason, req))
  BY <1>2, <1>3, TickState
<1> HIDE DEF t, c
<1>6. t.queue \in Seq(NotificationMessage) /\ Len(t.queue) \in Nat
  BY <1>4 DEF SubscriptionRecord
<1>7. sent \in 0..Len(t.queue) /\ sent \in 0..n /\ sent \in {n, Len(t.queue)}
  <2> DEFINE l == Len(t.queue)
  <2> HIDE DEF l
  <2>1. l \in Nat /\ sent = Smaller(n, l)
    BY <1>6 DEF l
  <2>2. sent \in Nat /\ sent <= n /\ sent <= l /\ sent \in {n, l}
    BY <2>1, SmallerFacts
  <2> QED
    BY <2>1, <2>2 DEF l
<1> HIDE DEF sent
<1>8. /\ u \in SubscriptionRecord /\ Contiguous(u)
      /\ u = [t EXCEPT !.queue = u.queue]
      /\ Len(u.queue) = Len(t.queue) - sent
      /\ sent = 0 => u.queue = t.queue
      /\ sent > 0 => OldestSeq(u) = Following(t.queue[sent])
      /\ u.queue # <<>> => u.queue[Len(u.queue)] = t.queue[Len(t.queue)]
  BY <1>4, <1>7, TakeNotificationsFacts
<1> HIDE DEF u
<1>9. /\ u.state = t.state /\ u.discarded = t.discarded /\ u.seq = t.seq
      /\ u.pending = t.pending /\ u.values = t.values
  BY <1>4, <1>8 DEF SubscriptionRecord
<1>10. Sound(c.sub, c.expected)
  <2>1. c.expected \in SeqNumber
    <3>1. CASE sent = 0
      BY <1>1, <3>1 DEF Sound
    <3>2. CASE sent # 0
      <4>1. t.queue[sent] \in NotificationMessage
        BY <1>6, <1>7, <3>2
      <4>2. Following(t.queue[sent]) \in SeqNumber
        BY <4>1, NextHandleType DEF Following, NotificationMessage
      <4> QED
        BY <1>1, <3>2, <4>2
    <3> QED
      BY <3>1, <3>2
  <2>2. u.discarded = 0 => OldestSeq(u) = c.expected
    <3>1. CASE sent = 0
      BY <1>1, <1>4, <1>8, <1>9, <3>1 DEF Sound, OldestSeq
    <3>2. CASE sent # 0
      BY <1>1, <1>7, <1>8, <3>2
    <3> QED
      BY <3>1, <3>2
  <2>3. u.state = "Closed" /\ u.queue # <<>> => u.queue[Len(u.queue)].kind = "statusChange"
    <3>1. t.state = "Closed" /\ t.queue # <<>> => t.queue[Len(t.queue)].kind = "statusChange"
      BY <1>4 DEF Sound
    <3>2. u.queue # <<>> => t.queue # <<>>
      <4>1. u.queue \in Seq(NotificationMessage)
        BY <1>8 DEF SubscriptionRecord
      <4>2. Len(t.queue) = 0 => Len(u.queue) = 0
        BY <1>6, <1>7, <1>8
      <4> QED
        BY <1>6, <4>1, <4>2
    <3> QED
      BY <1>8, <1>9, <3>1, <3>2
  <2> QED
    BY <1>1, <1>4, <1>8, <1>9, <2>1, <2>2, <2>3 DEF Sound
<1>11. c.requests \in 0..n
  BY <1>1, <1>7
<1>12. c.requests > 0 => c.sub.queue = <<>>
  <2>1. c.requests > 0 => Len(u.queue) = 0
    BY <1>1, <1>6, <1>7, <1>8
  <2>2. u.queue \in Seq(NotificationMessage)
    BY <1>8 DEF SubscriptionRecord
  <2> QED
    BY <1>1, <2>1, <2>2
<1>13. c.requests > 0 /\ c.sub.state = "Late" =>
         s.state = "Late" /\ reason # "ReceivePublishRequest"
  <2> SUFFICES ASSUME c.requests > 0, c.sub.state = "Late"
               PROVE  s.state = "Late" /\ reason # "ReceivePublishRequest"
    OBVIOUS
  <2> DEFINE r == GetStateTransition(s, reason, TRUE)
  <2>1. req = TRUE
    BY <1>1, <1>2, <1>7
  <2>2. StateAfter(s, r) = "Late"
    BY <1>1, <1>5, <1>9, <2>1
  <2>3. s \in SubscriptionRecord
    BY DEF Sound
  <2>4. CASE r \in {"IntervalElapsed8", "Late12", "KeepAlive17"}
    BY <2>3, <2>4, LateFacts
  <2>5. CASE r \notin {"IntervalElapsed8", "Late12", "KeepAlive17"}
    <3> HIDE DEF r
    <3>1. s.state = "Late" /\ r \notin {"Late10", "Late11"}
      BY <2>2, <2>5 DEF StateAfter
    <3> QED
      BY <2>3, <3>1, LateAnswers DEF r
  <2> QED
    BY <2>4, <2>5
<1> QED
  BY <1>1, <1>10, <1>11, <1>12, <1>13 DEF c

-----------------------------------------------------------------------------
(***************************************************************************)
(* The invariant holds initially and every action preserves it.            *)
(***************************************************************************)
LEMMA ReviseSettingsType ==
    ASSUME NEW r \in RequestedSettings PROVE ReviseSettings(r) \in Settings
<1>1. /\ r.lifetime \in Nat /\ r.keepAlive \in Nat /\ r.priority \in Nat
      /\ r.wakes \in BOOLEAN /\ r.perPublish \in Nat
  BY PublishCycleAssumption
<1>2. ReviseKeepAlive(r.keepAlive) \in Nat \ {0}
  BY <1>1, SubscriptionAssumption DEF ReviseKeepAlive
<1>3. ReviseLifetime(r.lifetime, ReviseKeepAlive(r.keepAlive)) \in Nat
  BY <1>1, <1>2, SubscriptionAssumption DEF ReviseLifetime
<1>4. RevisePerPublish(r.perPublish) \in Nat
  BY <1>1, SubscriptionAssumption DEF RevisePerPublish
<1> QED
  BY <1>1, <1>2, <1>3, <1>4 DEF ReviseSettings, Settings

\* Operations that leave the queue, the numbering and the state alone.
LEMMA KeepsSound ==
    ASSUME NEW s, NEW t, NEW e, Sound(s, e), t \in SubscriptionRecord,
           t.queue = s.queue, t.seq = s.seq, t.discarded = s.discarded, t.state = s.state,
           t.pending <= t.values
    PROVE  Sound(t, e)
  BY DEF Sound, Contiguous, OldestSeq

\* create_subscription establishes the invariant.
LEMMA InitEstablishes == Init => IInv
<1> SUFFICES ASSUME Init PROVE IInv
  OBVIOUS
<1>1. PICK r \in RequestedSettings, enabled \in BOOLEAN :
        sub = NewSubscription(ReviseSettings(r), enabled)
  BY DEF Init
<1>2. ReviseSettings(r) \in Settings
  BY ReviseSettingsType
<1>3. sub \in SubscriptionRecord
  <2>1. /\ ReviseSettings(r).lifetime \in Nat /\ ReviseSettings(r).keepAlive \in Nat
    BY <1>2 DEF Settings
  <2>2. 0 \in 0..MaxItems /\ 0 \in 0..U32Max /\ <<>> \in Seq(NotificationMessage)
    BY SubscriptionAssumption
  <2> QED
    BY <1>1, <1>2, <2>1, <2>2, SeqNumberRange
       DEF NewSubscription, SubscriptionRecord, SubscriptionState
<1>4. /\ sub.queue = <<>> /\ sub.seq = 1 /\ sub.state = "Creating"
      /\ sub.pending = 0 /\ sub.values = 0
  BY <1>1 DEF NewSubscription
<1>5. Sound(sub, expected)
  BY <1>3, <1>4, SeqNumberRange DEF Sound, Init, Contiguous, OldestSeq
<1>6. TypeOK
  <2>1. 0 \in 0..MaxRequests /\ 0 \in 0..MaxOperations
    BY PublishCycleAssumption
  <2> QED
    BY <1>3, <2>1, SeqNumberRange DEF TypeOK, Init
<1> QED
  BY <1>4, <1>5, <1>6 DEF IInv, Init, NoMessageWaitsForRequest, NotLateWithRequests,
                          ClosedEndsWithStatusChange

\* What every cycle leaves behind.
CycleOutcome ==
    /\ Sound(sub', expected')
    /\ sub' \in SubscriptionRecord /\ expected' \in SeqNumber
    /\ requests' \in 0..MaxRequests /\ removed' \in BOOLEAN
    /\ requests' > 0 => sub'.queue = <<>> /\ sub'.state # "Late"
    /\ sub'.state = "Closed" /\ ~removed' =>
         sub'.queue # <<>> /\ sub'.queue[Len(sub'.queue)].kind = "statusChange"

\* What tick stores after a cycle: a subscription that is sound stays so, and
\* requests taken by others leave no message waiting.
LEMMA CommitFacts ==
    ASSUME NEW c, Sound(c.sub, c.expected), c.requests \in 0..MaxRequests,
           c.requests > 0 => c.sub.queue = <<>>,
           c.requests > 0 => c.sub.state # "Late",
           NEW after \in TakenByOthers(c.requests), Commit(c, after)
    PROVE  CycleOutcome
<1>1. c.requests \in Nat /\ after \in 0..c.requests
  BY TakenByOthersFacts
<1>2. /\ requests' \in 0..MaxRequests
      /\ requests' > 0 => c.requests > 0
  BY <1>1, PublishCycleAssumption DEF Commit
<1> QED
  BY <1>2 DEF Commit, Sound, ReadyToRemove, CycleOutcome

\* A tick of the session that no publish request started.
LEMMA OrdinaryCycle ==
    ASSUME IInv, NEW reason \in {"TickTimerFired", "NotificationAvailable"},
           NEW before \in TakenByOthers(requests),
           NEW after \in TakenByOthers(Cycle(sub, requests - before, expected, reason).requests),
           Commit(Cycle(sub, requests - before, expected, reason), after)
    PROVE  CycleOutcome
<1> DEFINE n == requests - before
           c == Cycle(sub, n, expected, reason)
<1>1. /\ requests \in 0..MaxRequests /\ n \in 0..requests
      /\ n > 0 => sub.state # "Late"
  BY TakenByOthersFacts DEF IInv, TypeOK, NotLateWithRequests
<1> HIDE DEF n
<1>2. /\ Sound(c.sub, c.expected)
      /\ c.requests \in 0..n
      /\ c.requests > 0 => c.sub.queue = <<>>
      /\ c.requests > 0 /\ c.sub.state = "Late" => sub.state = "Late"
  <2>1. reason \in TickReason /\ n \in Nat /\ Sound(sub, expected)
    BY <1>1 DEF IInv, TickReason
  <2> QED
    BY <2>1, CycleFacts
<1>3. c.requests \in 0..MaxRequests /\ (c.requests > 0 => c.sub.state # "Late")
  BY <1>1, <1>2, PublishCycleAssumption
<1>4. after \in TakenByOthers(c.requests) /\ Commit(c, after)
  BY DEF n
<1> HIDE DEF c
<1> QED
  BY <1>2, <1>3, <1>4, CommitFacts

\* What an action still has to say once its cycle is done.
LEMMA OutcomePreserves ==
    ASSUME IInv, CycleOutcome, quiet' = quiet, operations' = operations,
           parity' \in {0, 1}
    PROVE  IInv'
  BY DEF IInv, TypeOK, CycleOutcome, NoMessageWaitsForRequest, NotLateWithRequests,
         ClosedEndsWithStatusChange

\* The tick of the publishing timer keeps the invariant.
LEMMA TimerFiresPreserves == ASSUME IInv, TimerFires PROVE IInv'
<1>1. PICK before \in TakenByOthers(requests) :
        \E after \in TakenByOthers(Cycle(sub, requests - before, expected, "TickTimerFired").requests) :
          Commit(Cycle(sub, requests - before, expected, "TickTimerFired"), after)
  BY DEF TimerFires
<1>2. CycleOutcome
  BY <1>1, OrdinaryCycle
<1>3. parity' \in {0, 1} /\ quiet' = quiet /\ operations' = operations
  BY DEF TimerFires, IInv, TypeOK
<1> QED
  BY <1>2, <1>3, OutcomePreserves

\* process_notification_wake keeps the invariant.
LEMMA NotificationWakePreserves == ASSUME IInv, NotificationWake PROVE IInv'
<1>1. PICK before \in TakenByOthers(requests) :
        \E after \in TakenByOthers(Cycle(sub, requests - before, expected, "NotificationAvailable").requests) :
          Commit(Cycle(sub, requests - before, expected, "NotificationAvailable"), after)
  BY DEF NotificationWake
<1>2. CycleOutcome
  BY <1>1, OrdinaryCycle
<1>3. parity' \in {0, 1} /\ quiet' = quiet /\ operations' = operations
  BY DEF NotificationWake, IInv, TypeOK
<1> QED
  BY <1>2, <1>3, OutcomePreserves

\* enqueue_publish_request keeps the invariant, the tick of the new request included.
LEMMA PublishRequestPreserves == ASSUME IInv, PublishRequest PROVE IInv'
<1> DEFINE First(early) ==
             IF requests >= MaxRequests
               THEN Cycle(sub, requests - early, expected, "ReceivePublishRequest")
               ELSE [sub |-> sub, requests |-> requests, expected |-> expected]
           Kept(early) == Smaller(First(early).requests, MaxRequests - 1)
           Second(early, before) ==
             Cycle(First(early).sub, (Kept(early) + 1) - before, First(early).expected,
                   "ReceivePublishRequest")
<1>1. PICK early \in IF requests >= MaxRequests THEN TakenByOthers(requests) ELSE {0} :
        \E before \in TakenByOthers(Kept(early) + 1) :
          \E after \in TakenByOthers(Second(early, before).requests) :
            Commit(Second(early, before), after)
  BY DEF PublishRequest
<1> DEFINE f == First(early)
           k == Kept(early)
<1>2. PICK before \in TakenByOthers(k + 1) :
        \E after \in TakenByOthers(Second(early, before).requests) :
          Commit(Second(early, before), after)
  BY <1>1
<1> DEFINE c == Second(early, before)
<1>3. PICK after \in TakenByOthers(c.requests) : Commit(c, after)
  BY <1>2
<1>4. requests \in 0..MaxRequests /\ Sound(sub, expected)
  BY DEF IInv, TypeOK
<1>5. Sound(f.sub, f.expected) /\ f.requests \in 0..MaxRequests
  <2>1. CASE requests >= MaxRequests
    <3> DEFINE n == requests - early
    <3>1. n \in 0..requests /\ n \in Nat
      BY <1>1, <1>4, <2>1, TakenByOthersFacts
    <3>2. f = Cycle(sub, n, expected, "ReceivePublishRequest")
      BY <2>1
    <3> HIDE DEF n, f
    <3>3. /\ Sound(f.sub, f.expected) /\ f.requests \in 0..n
      BY <1>4, <3>1, <3>2, CycleFacts DEF TickReason
    <3> QED
      BY <1>4, <3>1, <3>3, PublishCycleAssumption
  <2>2. CASE ~(requests >= MaxRequests)
    BY <1>4, <2>2
  <2> QED
    BY <2>1, <2>2
<1>6. k = Smaller(f.requests, MaxRequests - 1)
  OBVIOUS
<1>7. c = Cycle(f.sub, (k + 1) - before, f.expected, "ReceivePublishRequest")
  OBVIOUS
<1> HIDE DEF First, Kept, Second, f, k
<1>8. k \in 0..(MaxRequests - 1) /\ (k + 1) - before \in 0..MaxRequests
  <2>1. k \in Nat /\ k <= MaxRequests - 1
    BY <1>5, <1>6, PublishCycleAssumption DEF Smaller
  <2>2. before \in 0..(k + 1)
    BY <2>1, TakenByOthersFacts
  <2> QED
    BY <2>1, <2>2, PublishCycleAssumption
<1> HIDE DEF c
<1>9. /\ Sound(c.sub, c.expected)
      /\ c.requests \in 0..((k + 1) - before)
      /\ c.requests > 0 => c.sub.queue = <<>>
      /\ c.requests > 0 => c.sub.state # "Late"
  <2> DEFINE n == (k + 1) - before
  <2>1. n \in Nat /\ c = Cycle(f.sub, n, f.expected, "ReceivePublishRequest")
    BY <1>7, <1>8
  <2> HIDE DEF n
  <2>2. /\ Sound(c.sub, c.expected)
        /\ c.requests \in 0..n
        /\ c.requests > 0 => c.sub.queue = <<>>
        /\ c.requests > 0 => c.sub.state # "Late"
    BY <1>5, <2>1, CycleFacts DEF TickReason
  <2> QED
    BY <2>2 DEF n
<1>10. c.requests \in 0..MaxRequests
  BY <1>8, <1>9, PublishCycleAssumption
<1>11. CycleOutcome
  BY <1>3, <1>9, <1>10, CommitFacts
<1>12. parity' \in {0, 1} /\ quiet' = quiet /\ operations' = operations
  BY DEF PublishRequest, IInv, TypeOK
<1> QED
  BY <1>11, <1>12, OutcomePreserves

\* Steps that change the subscription, but not its queue, numbering or state.
QueueKept ==
    /\ sub' \in SubscriptionRecord
    /\ sub'.queue = sub.queue /\ sub'.seq = sub.seq /\ sub'.discarded = sub.discarded
    /\ sub'.state = sub.state /\ sub'.pending <= sub'.values

\* A step that leaves the message queue and the state alone, and adds no
\* publish request, keeps the invariant.
LEMMA ManagementPreserves ==
    ASSUME IInv, ~removed, QueueKept,
           requests' \in 0..requests, removed' = removed, quiet' \in BOOLEAN,
           operations' \in 0..MaxOperations, expected' = expected,
           parity' = parity
    PROVE  IInv'
<1>1. Sound(sub', expected')
  BY KeepsSound DEF IInv, QueueKept
<1>2. requests' \in 0..MaxRequests /\ (requests' > 0 => requests > 0)
  BY PublishCycleAssumption DEF IInv, TypeOK
<1>3. TypeOK'
  BY <1>2 DEF IInv, TypeOK, QueueKept
<1> QED
  BY <1>1, <1>2, <1>3 DEF IInv, QueueKept, NoMessageWaitsForRequest, NotLateWithRequests,
                          ClosedEndsWithStatusChange

\* The types the management operations rely on.
LEMMA IInvTypes ==
    ASSUME IInv
    PROVE  /\ sub \in SubscriptionRecord /\ sub.settings \in Settings
           /\ sub.settings.lifetime \in Nat
           /\ sub.values \in 0..MaxItems /\ sub.pending \in 0..MaxItems
           /\ sub.pending <= sub.values
           /\ requests \in 0..MaxRequests /\ requests \in Nat
           /\ operations \in 0..MaxOperations /\ quiet \in BOOLEAN
  BY PublishCycleAssumption DEF IInv, TypeOK, Sound, SubscriptionRecord, Settings

\* modify_subscription, set_publishing_mode and republish keep the invariant.
LEMMA ManagePreserves == ASSUME IInv, Manage PROVE IInv'
<1>1. QueueKept
  <2>1. ASSUME NEW r \in RequestedSettings,
               sub' = ModifySubscription(sub, ReviseSettings(r))
        PROVE  QueueKept
    <3>1. /\ ReviseSettings(r) \in Settings
          /\ ReviseSettings(r).lifetime \in Nat /\ ReviseSettings(r).keepAlive \in Nat
      BY ReviseSettingsType DEF Settings
    <3> QED
      BY <2>1, <3>1, IInvTypes DEF ModifySubscription, QueueKept, SubscriptionRecord
  <2>2. ASSUME NEW enabled \in BOOLEAN, sub' = SetPublishingMode(sub, enabled)
        PROVE  QueueKept
    BY <2>2, IInvTypes DEF SetPublishingMode, QueueKept, SubscriptionRecord
  <2>3. CASE sub' = ResetLifetimeCounter(sub)
    BY <2>3, IInvTypes DEF ResetLifetimeCounter, QueueKept, SubscriptionRecord
  <2>4. CASE sub' = SetResendData(sub)
    BY <2>4, IInvTypes DEF SetResendData, QueueKept, SubscriptionRecord
  <2> QED
    BY <2>1, <2>2, <2>3, <2>4 DEF Manage
<1>2. operations' \in 0..MaxOperations
  BY PublishCycleAssumption, IInvTypes DEF Manage
<1> QED
  BY <1>1, <1>2, IInvTypes, ManagementPreserves DEF Manage

\* Creating and deleting monitored items keeps the invariant.
LEMMA ChangeItemsPreserves == ASSUME IInv, ChangeItems PROVE IInv'
<1>1. QueueKept
  <2>1. ASSUME NEW withValue \in BOOLEAN, sub.values < MaxItems, sub' = InsertItem(sub, withValue)
        PROVE  QueueKept
    <3> DEFINE v == IF withValue THEN sub.values + 1 ELSE sub.values
               p == IF withValue THEN sub.pending + 1 ELSE sub.pending
    <3>1. v \in 0..MaxItems /\ p \in 0..MaxItems /\ p <= v
      BY <2>1, IInvTypes, SubscriptionAssumption
    <3>2. sub' = [sub EXCEPT !.notified = TRUE, !.values = v, !.pending = p]
      BY <2>1 DEF InsertItem
    <3> HIDE DEF v, p
    <3> QED
      BY <3>1, <3>2, IInvTypes DEF QueueKept, SubscriptionRecord
  <2>2. ASSUME NEW queued \in BOOLEAN,
               IF queued THEN sub.pending > 0 ELSE sub.values > sub.pending,
               sub' = RemoveItem(sub, queued)
        PROVE  QueueKept
    <3> DEFINE v == sub.values - 1
               p == IF queued THEN sub.pending - 1 ELSE sub.pending
    <3>1. v \in 0..MaxItems /\ p \in 0..MaxItems /\ p <= v
      BY <2>2, IInvTypes, SubscriptionAssumption
    <3>2. sub' = [sub EXCEPT !.values = v, !.pending = p]
      BY <2>2 DEF RemoveItem
    <3> HIDE DEF v, p
    <3> QED
      BY <3>1, <3>2, IInvTypes DEF QueueKept, SubscriptionRecord
  <2> QED
    BY <2>1, <2>2 DEF ChangeItems
<1>2. operations' \in 0..MaxOperations
  BY PublishCycleAssumption, IInvTypes DEF ChangeItems
<1> QED
  BY <1>1, <1>2, IInvTypes, ManagementPreserves DEF ChangeItems

\* Draining a value into an item keeps the invariant.
LEMMA DataChangePreserves == ASSUME IInv, DataChange PROVE IInv'
<1>1. PICK queued \in BOOLEAN : sub' = NotifyDataValue(sub, queued)
  BY DEF DataChange
<1> DEFINE p == IF queued THEN sub.pending + 1 ELSE sub.pending
<1>2. p \in 0..MaxItems /\ p <= sub.values
  BY IInvTypes, SubscriptionAssumption DEF DataChange
<1>3. sub' = [sub EXCEPT !.notified = TRUE, !.pending = p]
  BY <1>1 DEF NotifyDataValue
<1> HIDE DEF p
<1>4. QueueKept
  BY <1>2, <1>3, IInvTypes DEF QueueKept, SubscriptionRecord
<1>5. operations' \in 0..MaxOperations
  BY PublishCycleAssumption, IInvTypes DEF DataChange
<1> QED
  BY <1>4, <1>5, IInvTypes, ManagementPreserves DEF DataChange

\* cancel_publish_requests keeps the invariant.
LEMMA CancelPublishPreserves == ASSUME IInv, CancelPublish PROVE IInv'
<1>1. requests' \in 0..requests /\ operations' \in 0..MaxOperations
  BY PublishCycleAssumption, IInvTypes DEF CancelPublish
<1>2. QueueKept
  BY IInvTypes DEF CancelPublish, QueueKept
<1> QED
  BY <1>1, <1>2, IInvTypes, ManagementPreserves DEF CancelPublish

\* A client that goes silent changes nothing of the server.
LEMMA FallSilentPreserves == ASSUME IInv, FallSilent PROVE IInv'
<1>1. requests' \in 0..requests
  BY IInvTypes DEF FallSilent
<1>2. QueueKept
  BY IInvTypes DEF FallSilent, QueueKept
<1> QED
  BY <1>1, <1>2, IInvTypes, ManagementPreserves DEF FallSilent

\* Every step keeps the invariant.
LEMMA NextPreserves == IInv /\ [Next]_vars => IInv'
<1> SUFFICES ASSUME IInv, [Next]_vars PROVE IInv'
  OBVIOUS
<1>1. CASE UNCHANGED vars
  BY <1>1 DEF vars, IInv, TypeOK, NoMessageWaitsForRequest, NotLateWithRequests,
              ClosedEndsWithStatusChange
<1> QED
  BY <1>1, TimerFiresPreserves, NotificationWakePreserves, PublishRequestPreserves,
     CancelPublishPreserves, ManagePreserves, ChangeItemsPreserves, DataChangePreserves,
     FallSilentPreserves DEF Next

-----------------------------------------------------------------------------
(***************************************************************************)
(* The theorems.                                                           *)
(***************************************************************************)
LEMMA Invariance == Spec => []IInv
  BY InitEstablishes, NextPreserves, PTL DEF Spec

\* Sequence numbers, counters and queues stay in range: the u32 wrap of
\* Handle::next never yields zero and no counter is decremented below zero.
THEOREM TypeCorrect == Spec => []TypeOK
<1>1. IInv => TypeOK
  BY DEF IInv
<1> QED
  BY <1>1, Invariance, PTL

\* Queued messages carry consecutive sequence numbers up to the next one that
\* Subscription::tick will assign.
THEOREM QueueAlwaysContiguous == Spec => []QueueContiguous
<1>1. IInv => QueueContiguous
  BY DEF IInv, Sound, QueueContiguous
<1> QED
  BY <1>1, Invariance, PTL

\* A gap in what the client receives has been counted in discarded_message_count.
THEOREM GapsAreCounted == Spec => []NoSilentGap
<1>1. IInv => NoSilentGap
  BY DEF IInv, Sound, NoSilentGap
<1> QED
  BY <1>1, Invariance, PTL

\* After every handler a message and a publish request do not both wait.
THEOREM NothingWaitsForRequest == Spec => []NoMessageWaitsForRequest
<1>1. IInv => NoMessageWaitsForRequest
  BY DEF IInv
<1> QED
  BY <1>1, Invariance, PTL

\* A subscription is late only when the session has no publish request.
THEOREM LateOnlyWithoutRequests == Spec => []NotLateWithRequests
<1>1. IInv => NotLateWithRequests
  BY DEF IInv
<1> QED
  BY <1>1, Invariance, PTL

\* An expired subscription keeps its status change until it is sent.
THEOREM LastWordKept == Spec => []ClosedEndsWithStatusChange
<1>1. IInv => ClosedEndsWithStatusChange
  BY DEF IInv
<1> QED
  BY <1>1, Invariance, PTL
=============================================================================
