------------------------ MODULE ItemReportingProofs ------------------------
(***************************************************************************)
(* Proofs about ItemReporting for every set of items and values, all       *)
(* settings, queues of any size and every number of steps.                 *)
(***************************************************************************)
EXTENDS ItemReporting, WellFoundedInduction, SequenceTheorems, TLAPS

-----------------------------------------------------------------------------
(***************************************************************************)
(* The inductive invariant, item by item.                                  *)
(***************************************************************************)

Overflowed(q) == \E k \in DOMAIN q : q[k].overflow
Signals(q) == \E k \in DOMAIN q : q[k].semantics
OnlyData(q) == \A k \in DOMAIN q : q[k].data

\* The value was sampled after a change, or its mark that it was not is lost.
After(v) == v.gen > 0 \/ v.forgotten

\* The SemanticsChanged bit is on values only, and every value queued behind one
\* that has the bit is as good.
InOrder(q) ==
    /\ \A k \in DOMAIN q : q[k].semantics => q[k].data
    /\ \A k, m \in DOMAIN q : k <= m /\ q[k].semantics /\ q[m].data => After(q[m].value)

\* A value is held back only behind an accepted one, and only by a data item.
HeldBackOK(i) ==
    /\ Len(i.queue) <= i.queueSize
    /\ i.skipped # NoValue => i.last # NoValue
    /\ i.skippedBefore => i.skipped # NoValue
    /\ ~IsData(i) => i.skipped = NoValue /\ ~i.semantics /\ ~i.semanticsDue /\ ~Signals(i.queue)

\* LossFlagged: a lost notification leaves at least two entries, so a queue that
\* shrinks to one entry is cut, and the cut ends the promise.
LossOK(i) ==
    IF IsData(i) THEN /\ OnlyData(i.queue) /\ ~i.overflowEvent
                      /\ i.lost => Len(i.queue) >= 2 /\ Overflowed(i.queue)
                 ELSE i.lost => i.overflowEvent

\* SemanticsExact: no bit is armed or queued before the first change; what is
\* accepted or held back beside a queued bit was sampled after a change, and so was
\* what is held back without the mark; or the mark was lost.
DueOK(i) == i.semanticsDue => i.semantics \/ Signals(i.queue)
BitsOK(i) ==
    /\ InOrder(i.queue)
    /\ i.semantics \/ Signals(i.queue) => i.gen > 0
    /\ Signals(i.queue) => After(i.last)
    /\ i.skipped # NoValue /\ i.gen > 0 /\ (~i.skippedBefore \/ Signals(i.queue)) => After(i.skipped)

\* LatestKept.
LatestOK(i) ==
    IsData(i) /\ i.actual # -1 /\ ~i.stale =>
      i.actual = IF i.skipped # NoValue THEN i.skipped.val ELSE i.last.val

ItemOK(i) == i \in Item /\ HeldBackOK(i) /\ LossOK(i) /\ DueOK(i) /\ BitsOK(i) /\ LatestOK(i)

IInv ==
    /\ TypeOK
    /\ \A id \in Live : ItemOK(items[id])
    /\ PendingAnnounced

-----------------------------------------------------------------------------
(***************************************************************************)
(* The queue.                                                              *)
(***************************************************************************)

\* SelectInSeq finds a data notification if there is one.
LEMMA SelectDataFacts ==
    ASSUME NEW q \in Seq(Notification), NEW at, at = SelectInSeq(q, LAMBDA n : n.data)
    PROVE  IF \E k \in DOMAIN q : q[k].data THEN at \in DOMAIN q /\ q[at].data ELSE at = 0
<1> DEFINE I == {k \in 1..Len(q) : q[k].data}
           R == {ss \in Nat \X Nat : ss[1] < ss[2]}
<1>1. at = IF I # {} THEN Min(I) ELSE 0
  BY DEF SelectInSeq
<1>2. DOMAIN q = 1..Len(q) /\ Len(q) \in Nat /\ I \subseteq Nat
  OBVIOUS
<1>3. IsWellFoundedOn(R, Nat)
  BY NatLessThanWellFounded DEF OpToRel
<1>4. ASSUME I # {} PROVE Min(I) \in I
  <2> HIDE DEF R
  <2>1. PICK x \in I : \A y \in I : ~(<<y, x>> \in R)
    BY <1>2, <1>3, <1>4, WFMin
  <2>2. \A y \in I : x <= y
    <3> TAKE y \in I
    <3>1. x \in Nat /\ y \in Nat /\ ~(<<y, x>> \in R)
      BY <1>2, <2>1
    <3> QED
      BY <3>1 DEF R
  <2> QED
    BY <2>2 DEF Min
<1> QED
  BY <1>1, <1>2, <1>4

\* The flags change nothing else.
LEMMA FlagFacts ==
    ASSUME NEW n \in Notification
    PROVE  /\ FlagOverflow(n) \in Notification /\ FlagSemantics(n) \in Notification
           /\ (FlagOverflow(n).data <=> n.data) /\ FlagOverflow(n).value = n.value
           /\ (FlagOverflow(n).semantics <=> n.semantics)
           /\ (FlagOverflow(n).overflow <=> (n.overflow \/ n.data))
           /\ (FlagSemantics(n).data <=> n.data) /\ FlagSemantics(n).value = n.value
           /\ (FlagSemantics(n).overflow <=> n.overflow)
           /\ (FlagSemantics(n).semantics <=> (n.semantics \/ n.data))
  BY DEF FlagOverflow, FlagSemantics, Notification

\* What enqueue_notification makes of the queue, of the armed bit and of `lost`.
Enqueued(i, n, q, s, l) ==
    /\ q \in Seq(Notification) /\ s \in BOOLEAN /\ l \in BOOLEAN
    /\ Len(q) <= i.queueSize /\ q # <<>>
    /\ OnlyData(i.queue) /\ n.data => OnlyData(q)
    /\ ~l \/ i.lost \/ (Len(i.queue) = i.queueSize /\ i.queueSize > 1)
    /\ /\ OnlyData(i.queue) /\ n.data
       /\ i.lost => Len(i.queue) >= 2 /\ Overflowed(i.queue)
       => (l => Len(q) >= 2 /\ Overflowed(q))
    /\ i.semantics \/ Signals(i.queue) \/ n.semantics => s \/ Signals(q)
    /\ s => i.semantics \/ Signals(i.queue)
    /\ Signals(q) => Signals(i.queue) \/ n.semantics
    /\ /\ InOrder(i.queue) /\ (n.semantics => n.data)
       /\ Signals(i.queue) \/ n.semantics => (n.data => After(n.value))
       => InOrder(q)

LEMMA ReplaceFacts ==
    ASSUME NEW q \in Seq(Notification), NEW k \in DOMAIN q, NEW n \in Notification
    PROVE  LET r == [q EXCEPT ![k] = n] IN
           /\ r \in Seq(Notification) /\ Len(r) = Len(q) /\ DOMAIN r = DOMAIN q
           /\ r[k] = n /\ \A m \in DOMAIN q : m # k => r[m] = q[m]
<1> DEFINE r == [q EXCEPT ![k] = n]
<1>1. DOMAIN q = 1..Len(q) /\ Len(q) \in Nat /\ \A m \in 1..Len(q) : q[m] \in Notification
  OBVIOUS
<1>2. DOMAIN r = 1..Len(q) /\ \A m \in 1..Len(q) : r[m] = IF m = k THEN n ELSE q[m]
  BY <1>1
<1>3. r = [m \in 1..Len(q) |-> r[m]]
  BY <1>2
<1>4. r \in [1..Len(q) -> Notification]
  BY <1>1, <1>2, <1>3
<1>5. r \in Seq(Notification)
  BY <1>1, <1>4
<1> QED
  BY <1>1, <1>2, <1>5

\* Two queues that differ at most in their bits.
SameEntries(p, q) ==
    /\ DOMAIN p = DOMAIN q
    /\ \A k \in DOMAIN q : (p[k].data <=> q[k].data) /\ p[k].value = q[k].value

LEMMA FlagFirstFacts ==
    ASSUME NEW a \in Seq(Notification), a # <<>>
    PROVE  LET p == [a EXCEPT ![1] = FlagOverflow(a[1])] IN
           /\ p \in Seq(Notification) /\ Len(p) = Len(a) /\ SameEntries(p, a)
           /\ \A k \in DOMAIN a : p[k].semantics <=> a[k].semantics
           /\ a[1].data => p[1].overflow
<1> DEFINE p == [a EXCEPT ![1] = FlagOverflow(a[1])]
<1>1. 1 \in DOMAIN a /\ a[1] \in Notification
  OBVIOUS
<1>2. FlagOverflow(a[1]) \in Notification
  BY <1>1, FlagFacts
<1>3. /\ p \in Seq(Notification) /\ Len(p) = Len(a) /\ DOMAIN p = DOMAIN a
      /\ p[1] = FlagOverflow(a[1]) /\ \A m \in DOMAIN a : m # 1 => p[m] = a[m]
  BY <1>1, <1>2, ReplaceFacts
<1> HIDE DEF p
<1>4. /\ (p[1].data <=> a[1].data) /\ p[1].value = a[1].value
      /\ (p[1].semantics <=> a[1].semantics) /\ (a[1].data => p[1].overflow)
  BY <1>1, <1>3, FlagFacts
<1>5. SameEntries(p, a) /\ \A k \in DOMAIN a : p[k].semantics <=> a[k].semantics
  BY <1>3, <1>4 DEF SameEntries
<1> QED
  BY <1>3, <1>4, <1>5 DEF p

LEMMA FlagSemanticsAtFacts ==
    ASSUME NEW p \in Seq(Notification), NEW at \in DOMAIN p, p[at].data
    PROVE  LET q == [p EXCEPT ![at] = FlagSemantics(p[at])] IN
           /\ q \in Seq(Notification) /\ Len(q) = Len(p) /\ SameEntries(q, p)
           /\ \A k \in DOMAIN p : p[k].overflow => q[k].overflow
           /\ \A k \in DOMAIN p : p[k].semantics => q[k].semantics
           /\ \A k \in DOMAIN p : q[k].semantics => p[k].semantics \/ p[k].data
           /\ q[at].semantics
<1> DEFINE q == [p EXCEPT ![at] = FlagSemantics(p[at])]
<1>1. p[at] \in Notification
  OBVIOUS
<1>2. FlagSemantics(p[at]) \in Notification
  BY <1>1, FlagFacts
<1>3. /\ q \in Seq(Notification) /\ Len(q) = Len(p) /\ DOMAIN q = DOMAIN p
      /\ q[at] = FlagSemantics(p[at]) /\ \A m \in DOMAIN p : m # at => q[m] = p[m]
  BY <1>2, ReplaceFacts
<1> HIDE DEF q
<1>4. /\ (q[at].data <=> p[at].data) /\ q[at].value = p[at].value
      /\ (q[at].overflow <=> p[at].overflow) /\ q[at].semantics
  BY <1>1, <1>3, FlagFacts
<1>5. /\ \A k \in DOMAIN p : p[k].overflow => q[k].overflow
      /\ \A k \in DOMAIN p : p[k].semantics => q[k].semantics
      /\ \A k \in DOMAIN p : q[k].semantics => p[k].semantics \/ p[k].data
  BY <1>3, <1>4
<1>6. SameEntries(q, p)
  BY <1>3, <1>4 DEF SameEntries
<1> QED
  BY <1>3, <1>4, <1>5, <1>6 DEF q

\* Room in the queue.
LEMMA EnqueueWithRoom ==
    ASSUME NEW i \in Item, Len(i.queue) <= i.queueSize, Len(i.queue) # i.queueSize,
           NEW n \in Notification
    PROVE  Enqueued(i, n, Append(i.queue, n), i.semantics, i.lost)
<1> DEFINE q == Append(i.queue, n)
<1>1. /\ i.queue \in Seq(Notification) /\ Len(i.queue) \in Nat /\ DOMAIN i.queue = 1..Len(i.queue)
      /\ i.queueSize \in Nat /\ i.semantics \in BOOLEAN /\ i.lost \in BOOLEAN
  BY DEF Item
<1>2. /\ q \in Seq(Notification) /\ Len(q) = Len(i.queue) + 1 /\ DOMAIN q = 1..(Len(i.queue) + 1)
      /\ q[Len(i.queue) + 1] = n /\ \A k \in 1..Len(i.queue) : q[k] = i.queue[k]
  BY <1>1
<1> HIDE DEF q
<1>3. Len(q) <= i.queueSize /\ q # <<>>
  BY <1>1, <1>2
<1>4. \A k \in DOMAIN q : k \in DOMAIN i.queue \/ q[k] = n
  BY <1>1, <1>2
<1>5. \A k \in DOMAIN i.queue : k \in DOMAIN q
  BY <1>1, <1>2
<1>6. OnlyData(i.queue) /\ n.data => OnlyData(q)
  BY <1>1, <1>2, <1>4 DEF OnlyData
<1>7. Overflowed(i.queue) => Overflowed(q)
  BY <1>1, <1>2, <1>5 DEF Overflowed
<1>8. Signals(q) <=> Signals(i.queue) \/ n.semantics
  BY <1>1, <1>2, <1>4, <1>5, SMTT(30) DEF Signals
<1>9. ASSUME InOrder(i.queue), n.semantics => n.data,
             Signals(i.queue) \/ n.semantics => (n.data => After(n.value))
      PROVE  InOrder(q)
  <2>1. \A k \in DOMAIN q : q[k].semantics => q[k].data
    BY <1>1, <1>2, <1>4, <1>9 DEF InOrder
  <2>2. ASSUME NEW k \in DOMAIN q, NEW m \in DOMAIN q, k <= m, q[k].semantics, q[m].data
        PROVE  After(q[m].value)
    <3>1. CASE m = Len(i.queue) + 1
      BY <1>1, <1>2, <1>8, <1>9, <2>2, <3>1 DEF Signals
    <3>2. CASE m # Len(i.queue) + 1
      <4>1. k \in DOMAIN i.queue /\ m \in DOMAIN i.queue
        BY <1>1, <1>2, <2>2, <3>2
      <4> QED
        BY <1>1, <1>2, <1>9, <2>2, <4>1 DEF InOrder
    <3> QED
      BY <3>1, <3>2
  <2> QED
    BY <2>1, <2>2 DEF InOrder
<1> QED
  BY <1>1, <1>2, <1>3, <1>6, <1>7, <1>8, <1>9 DEF Enqueued, q

\* A full queue b whose front entry made room for n; q may have more bits, the
\* SemanticsChanged bit only if the front entry had it.
LEMMA ShiftFacts ==
    ASSUME NEW b \in Seq(Notification), b # <<>>, NEW n \in Notification
    PROVE  LET a == Append(Tail(b), n) IN
           /\ a \in Seq(Notification) /\ Len(a) = Len(b) /\ DOMAIN a = DOMAIN b /\ a # <<>>
           /\ a[Len(b)] = n
           /\ \A k \in DOMAIN b : k # Len(b) => k + 1 \in DOMAIN b /\ a[k] = b[k + 1]
  OBVIOUS

LEMMA ShiftedFacts ==
    ASSUME NEW b \in Seq(Notification), b # <<>>, NEW n \in Notification,
           NEW a \in Seq(Notification), DOMAIN a = DOMAIN b, a[Len(b)] = n,
           \A k \in DOMAIN b : k # Len(b) => k + 1 \in DOMAIN b /\ a[k] = b[k + 1],
           NEW q \in Seq(Notification), SameEntries(q, a),
           \A k \in DOMAIN a : a[k].semantics => q[k].semantics,
           \A k \in DOMAIN a : q[k].semantics => a[k].semantics \/ (b[1].semantics /\ a[k].data)
    PROVE  /\ OnlyData(b) /\ n.data => OnlyData(q)
           /\ n.semantics => Signals(q)
           /\ Signals(b) => b[1].semantics \/ Signals(q)
           /\ Signals(q) => Signals(b) \/ n.semantics
           /\ /\ InOrder(b) /\ (n.semantics => n.data)
              /\ Signals(b) \/ n.semantics => (n.data => After(n.value))
              => InOrder(q)
<1>1. /\ DOMAIN q = DOMAIN b /\ DOMAIN b = 1..Len(b) /\ Len(b) \in Nat \ {0}
      /\ 1 \in DOMAIN b /\ Len(b) \in DOMAIN b
  BY DEF SameEntries
<1>2. \A k \in DOMAIN b : a[k] = n \/ (k + 1 \in DOMAIN b /\ a[k] = b[k + 1])
  OBVIOUS
<1>3. \A k \in DOMAIN b : (q[k].data <=> a[k].data) /\ q[k].value = a[k].value
  BY <1>1 DEF SameEntries
<1>4. OnlyData(b) /\ n.data => OnlyData(q)
  BY <1>1, <1>2, <1>3 DEF OnlyData
<1>5. n.semantics => Signals(q)
  BY <1>1 DEF Signals
<1>6. ASSUME NEW k \in DOMAIN b, b[k].semantics, ~b[1].semantics PROVE Signals(q)
  <2>1. k # 1 /\ k - 1 \in DOMAIN b /\ k - 1 # Len(b) /\ (k - 1) + 1 = k
    BY <1>1, <1>6
  <2>2. a[k - 1] = b[k]
    BY <2>1
  <2> QED
    BY <1>1, <1>6, <2>1, <2>2 DEF Signals
<1>7. Signals(q) => Signals(b) \/ n.semantics
  BY <1>1, <1>2 DEF Signals
<1>8. ASSUME InOrder(b), n.semantics => n.data,
             Signals(b) \/ n.semantics => (n.data => After(n.value))
      PROVE  InOrder(q)
  <2>1. ASSUME NEW k \in DOMAIN q, q[k].semantics PROVE q[k].data
    BY <1>1, <1>2, <1>3, <1>8, <2>1 DEF InOrder
  <2>2. ASSUME NEW k \in DOMAIN q, NEW m \in DOMAIN q, k <= m, q[k].semantics, q[m].data
        PROVE  After(q[m].value)
    <3>1. CASE a[m] = n
      <4>1. Signals(b) \/ n.semantics
        BY <1>7, <2>2 DEF Signals
      <4> QED
        BY <1>1, <1>3, <1>8, <2>2, <3>1, <4>1
    <3>2. CASE m + 1 \in DOMAIN b /\ a[m] = b[m + 1] /\ m # Len(b)
      <4>1. b[m + 1].data /\ q[m].value = b[m + 1].value
        BY <1>1, <1>3, <2>2, <3>2
      <4>2. CASE b[1].semantics
        <5>1. 1 <= m + 1
          BY <1>1
        <5> QED
          BY <1>1, <1>8, <3>2, <4>1, <4>2, <5>1 DEF InOrder
      <4>3. CASE ~b[1].semantics
        <5>1. a[k].semantics
          BY <1>1, <2>2, <4>3
        <5>2. k # Len(b) /\ k + 1 <= m + 1
          BY <1>1, <2>2, <3>2
        <5>3. k + 1 \in DOMAIN b /\ b[k + 1].semantics
          BY <1>1, <5>1, <5>2
        <5> QED
          BY <1>8, <3>2, <4>1, <5>2, <5>3 DEF InOrder
      <4> QED
        BY <4>2, <4>3
    <3>3. a[m] = n \/ m # Len(b)
      OBVIOUS
    <3> QED
      BY <1>1, <1>2, <3>1, <3>2, <3>3
  <2> QED
    BY <2>1, <2>2 DEF InOrder
<1>9. Signals(b) => b[1].semantics \/ Signals(q)
  BY <1>6 DEF Signals
<1> QED
  BY <1>4, <1>5, <1>7, <1>8, <1>9

\* discardOldest on a full queue: the new front gets the overflow bit, and the
\* SemanticsChanged bit of the discarded entry goes to the next queued value or
\* is armed again.
LEMMA CarriedFacts ==
    ASSUME NEW p \in Seq(Notification), NEW armed \in BOOLEAN, NEW had \in BOOLEAN
    PROVE  LET at == SelectInSeq(p, LAMBDA m : m.data)
               q == IF had /\ at # 0 THEN [p EXCEPT ![at] = FlagSemantics(p[at])] ELSE p
               s == armed \/ (had /\ at = 0)
           IN  /\ q \in Seq(Notification) /\ Len(q) = Len(p) /\ SameEntries(q, p)
               /\ \A k \in DOMAIN p : p[k].overflow => q[k].overflow
               /\ \A k \in DOMAIN p : p[k].semantics => q[k].semantics
               /\ \A k \in DOMAIN p : q[k].semantics => p[k].semantics \/ (had /\ p[k].data)
               /\ had => s \/ Signals(q)
<1> DEFINE at == SelectInSeq(p, LAMBDA m : m.data)
           q == IF had /\ at # 0 THEN [p EXCEPT ![at] = FlagSemantics(p[at])] ELSE p
           s == armed \/ (had /\ at = 0)
<1>1. IF \E k \in DOMAIN p : p[k].data THEN at \in DOMAIN p /\ p[at].data ELSE at = 0
  BY SelectDataFacts
<1> HIDE DEF at
<1>2. CASE had /\ at # 0
  <2> DEFINE r == [p EXCEPT ![at] = FlagSemantics(p[at])]
  <2>1. at \in DOMAIN p /\ p[at].data
    BY <1>1, <1>2
  <2>2. /\ r \in Seq(Notification) /\ Len(r) = Len(p) /\ SameEntries(r, p)
        /\ \A k \in DOMAIN p : p[k].overflow => r[k].overflow
        /\ \A k \in DOMAIN p : p[k].semantics => r[k].semantics
        /\ \A k \in DOMAIN p : r[k].semantics => p[k].semantics \/ p[k].data
        /\ r[at].semantics
    BY <2>1, FlagSemanticsAtFacts
  <2> HIDE DEF r
  <2>3. q = r
    BY <1>2 DEF r
  <2>4. Signals(q)
    BY <2>1, <2>2, <2>3 DEF Signals, SameEntries
  <2> HIDE DEF q
  <2> QED
    BY <1>2, <2>2, <2>3, <2>4 DEF q, at
<1>3. CASE ~(had /\ at # 0)
  <2>1. q = p
    BY <1>3
  <2>2. SameEntries(p, p)
    BY DEF SameEntries
  <2>3. had => s
    BY <1>3
  <2> HIDE DEF q, s
  <2> QED
    BY <2>1, <2>2, <2>3 DEF q, s, at
<1> QED
  BY <1>2, <1>3

\* The item with another queue, armed bit and `lost`.
WithQueue(i, q, s, l) == [i EXCEPT !.anyNew = TRUE, !.queue = q, !.semantics = s, !.lost = l]

LEMMA DiscardOldestFacts ==
    ASSUME NEW i \in Item, Len(i.queue) = i.queueSize, NEW n \in Notification
    PROVE  \E q \in Seq(Notification), s \in BOOLEAN :
             LET l == i.lost \/ i.queueSize > 1 IN
             /\ Enqueued(i, n, q, s, l)
             /\ DiscardOldest([i EXCEPT !.anyNew = TRUE, !.lost = l], n) = WithQueue(i, q, s, l)
<1> DEFINE b == i.queue
           a == Append(Tail(b), n)
           p == IF i.queueSize > 1 THEN [a EXCEPT ![1] = FlagOverflow(a[1])] ELSE a
           at == SelectInSeq(p, LAMBDA m : m.data)
           had == Head(b).semantics
           q == IF had /\ at # 0 THEN [p EXCEPT ![at] = FlagSemantics(p[at])] ELSE p
           s == i.semantics \/ (had /\ at = 0)
           l == i.lost \/ i.queueSize > 1
<1>1. /\ b \in Seq(Notification) /\ b # <<>> /\ Head(b) = b[1] /\ b[1] \in Notification
      /\ i.queueSize \in Nat \ {0} /\ i.semantics \in BOOLEAN /\ i.lost \in BOOLEAN
      /\ Len(b) = i.queueSize
  BY DEF Item
<1>2. had \in BOOLEAN /\ (had <=> b[1].semantics)
  BY <1>1 DEF Notification
<1>3. /\ a \in Seq(Notification) /\ Len(a) = Len(b) /\ DOMAIN a = DOMAIN b /\ a # <<>>
      /\ a[Len(b)] = n
      /\ \A k \in DOMAIN b : k # Len(b) => k + 1 \in DOMAIN b /\ a[k] = b[k + 1]
  BY <1>1, ShiftFacts
<1>4. DiscardOldest([i EXCEPT !.anyNew = TRUE, !.lost = l], n) = WithQueue(i, q, s, l)
  <2> DEFINE j == [i EXCEPT !.anyNew = TRUE, !.lost = l]
             full == [j EXCEPT !.queue = p]
  <2>1. j \in Item /\ j.queue = b /\ j.queueSize = i.queueSize /\ j.semantics = i.semantics
    BY <1>1 DEF Item
  <2> HIDE DEF j
  <2>2. DiscardOldest(j, n) = IF had THEN CarrySemantics(full) ELSE full
    BY <2>1 DEF DiscardOldest, ReplaceAt
  <2> USE DEF j
  <2> HIDE DEF p
  <2>3. full.queue = p /\ full.semantics = i.semantics
    BY <2>1 DEF Item
  <2>4. CarrySemantics(full) = IF at = 0 THEN [full EXCEPT !.semantics = TRUE]
                               ELSE [full EXCEPT !.queue = [p EXCEPT ![at] = FlagSemantics(p[at])]]
    BY <2>3 DEF CarrySemantics
  <2> HIDE DEF at, l
  <2>5. CASE had /\ at = 0
    <3>1. q = p /\ s = TRUE
      BY <2>5
    <3> HIDE DEF q, s
    <3>2. [full EXCEPT !.semantics = TRUE] = WithQueue(i, p, TRUE, l)
      BY DEF WithQueue, Item
    <3> QED
      BY <2>2, <2>4, <2>5, <3>1, <3>2
  <2>6. CASE had /\ at # 0
    <3>1. q = [p EXCEPT ![at] = FlagSemantics(p[at])] /\ s = i.semantics
      BY <1>1, <2>6
    <3> HIDE DEF q, s
    <3>2. [full EXCEPT !.queue = q] = WithQueue(i, q, i.semantics, l)
      BY DEF WithQueue, Item
    <3> QED
      BY <2>2, <2>4, <2>6, <3>1, <3>2
  <2>7. CASE ~had
    <3>1. q = p /\ s = i.semantics
      BY <1>1, <2>7
    <3> HIDE DEF q, s
    <3>2. full = WithQueue(i, p, i.semantics, l)
      BY DEF WithQueue, Item
    <3> QED
      BY <2>2, <2>7, <3>1, <3>2
  <2> QED
    BY <2>5, <2>6, <2>7
<1> HIDE DEF a
<1>5. /\ p \in Seq(Notification) /\ Len(p) = Len(a) /\ SameEntries(p, a)
      /\ \A k \in DOMAIN a : p[k].semantics <=> a[k].semantics
      /\ i.queueSize > 1 /\ a[1].data => p[1].overflow
  <2>1. SameEntries(a, a)
    BY DEF SameEntries
  <2> QED
    BY <1>3, <2>1, FlagFirstFacts
<1> HIDE DEF p, had
<1>6. /\ q \in Seq(Notification) /\ Len(q) = Len(p) /\ SameEntries(q, p)
      /\ \A k \in DOMAIN p : p[k].overflow => q[k].overflow
      /\ \A k \in DOMAIN p : p[k].semantics => q[k].semantics
      /\ \A k \in DOMAIN p : q[k].semantics => p[k].semantics \/ (had /\ p[k].data)
      /\ had => s \/ Signals(q)
  BY <1>1, <1>2, <1>5, CarriedFacts
<1>7. s \in BOOLEAN /\ (i.semantics => s) /\ (s => i.semantics \/ had) /\ l \in BOOLEAN
  BY <1>1, <1>2
<1> HIDE DEF q, s, at
<1>8. /\ SameEntries(q, a) /\ DOMAIN p = DOMAIN a
      /\ \A k \in DOMAIN a : a[k].semantics => q[k].semantics
      /\ \A k \in DOMAIN a : q[k].semantics => a[k].semantics \/ (b[1].semantics /\ a[k].data)
  BY <1>2, <1>5, <1>6 DEF SameEntries
<1>9. /\ OnlyData(b) /\ n.data => OnlyData(q)
      /\ n.semantics => Signals(q)
      /\ Signals(b) => b[1].semantics \/ Signals(q)
      /\ Signals(q) => Signals(b) \/ n.semantics
      /\ /\ InOrder(b) /\ (n.semantics => n.data)
         /\ Signals(b) \/ n.semantics => (n.data => After(n.value))
         => InOrder(q)
  <2> HIDE DEF b
  <2>1. q \in Seq(Notification) /\ b \in Seq(Notification) /\ b # <<>>
    BY <1>1, <1>6
  <2> QED
    BY <1>3, <1>8, <2>1, ShiftedFacts
<1>10. 1 \in DOMAIN b /\ (had => Signals(b))
  BY <1>1, <1>2 DEF Signals
<1>11. Len(q) = i.queueSize /\ Len(q) <= i.queueSize /\ q # <<>>
  BY <1>1, <1>3, <1>5, <1>6
<1>12. ASSUME OnlyData(b), n.data, i.lost => Len(b) >= 2, l
       PROVE  Len(q) >= 2 /\ Overflowed(q)
  <2>1. i.queueSize > 1
    BY <1>1, <1>12
  <2>2. 1 \in DOMAIN q /\ a[1].data
    BY <1>1, <1>3, <1>8, <1>12, <2>1 DEF OnlyData, SameEntries
  <2>3. q[1].overflow
    BY <1>5, <1>6, <1>8, <2>1, <2>2 DEF SameEntries
  <2> QED
    BY <1>1, <1>11, <2>1, <2>2, <2>3 DEF Overflowed
<1>13. ~l \/ i.lost \/ (Len(b) = i.queueSize /\ i.queueSize > 1)
  BY <1>1
<1> HIDE DEF l
<1>14. i.semantics \/ Signals(b) \/ n.semantics => s \/ Signals(q)
  BY <1>2, <1>6, <1>7, <1>9
<1>15. s => i.semantics \/ Signals(b)
  BY <1>7, <1>10
<1>16. Enqueued(i, n, q, s, l)
  BY <1>6, <1>7, <1>9, <1>11, <1>12, <1>13, <1>14, <1>15, Zenon DEF Enqueued
<1> QED
  BY <1>4, <1>6, <1>7, <1>16 DEF l

\* A queue b whose last entry is replaced by r, which stands for n and for the
\* SemanticsChanged bit that the last entry had.
LEMMA ReplacedLastFacts ==
    ASSUME NEW b \in Seq(Notification), b # <<>>, NEW n \in Notification, NEW r \in Notification,
           r.data <=> n.data, r.value = n.value,
           r.semantics <=> n.semantics \/ (b[Len(b)].semantics /\ n.data)
    PROVE  LET q == Append(Front(b), r) IN
           /\ q \in Seq(Notification) /\ Len(q) = Len(b) /\ q # <<>> /\ q[Len(b)] = r
           /\ OnlyData(b) /\ n.data => OnlyData(q)
           /\ n.semantics => Signals(q)
           /\ Signals(b) => (b[Len(b)].semantics /\ ~n.data) \/ Signals(q)
           /\ Signals(q) => Signals(b) \/ n.semantics
           /\ /\ InOrder(b) /\ (n.semantics => n.data)
              /\ Signals(b) \/ n.semantics => (n.data => After(n.value))
              => InOrder(q)
<1> DEFINE q == Append(Front(b), r)
<1>1. DOMAIN b = 1..Len(b) /\ Len(b) \in Nat \ {0} /\ Len(b) \in DOMAIN b
  OBVIOUS
<1>2. /\ q \in Seq(Notification) /\ Len(q) = Len(b) /\ DOMAIN q = DOMAIN b /\ q # <<>>
      /\ q[Len(b)] = r /\ \A k \in DOMAIN b : k # Len(b) => q[k] = b[k]
  <2>1. Front(b) \in Seq(Notification) /\ Len(Front(b)) = Len(b) - 1
        /\ \A k \in 1..(Len(b) - 1) : Front(b)[k] = b[k]
    BY <1>1 DEF Front
  <2>2. /\ q \in Seq(Notification) /\ Len(q) = Len(Front(b)) + 1 /\ q[Len(Front(b)) + 1] = r
        /\ \A k \in 1..Len(Front(b)) : q[k] = Front(b)[k]
    BY <2>1
  <2> HIDE DEF q
  <2>3. /\ Len(q) = Len(b) /\ q[Len(b)] = r /\ \A k \in 1..(Len(b) - 1) : q[k] = b[k]
    BY <1>1, <2>1, <2>2
  <2>4. DOMAIN q = 1..Len(q) /\ q # <<>>
    BY <1>1, <2>2, <2>3
  <2>5. \A k \in DOMAIN b : k # Len(b) => k \in 1..(Len(b) - 1)
    BY <1>1
  <2> QED
    BY <1>1, <2>2, <2>3, <2>4, <2>5
<1> HIDE DEF q
<1>3. OnlyData(b) /\ n.data => OnlyData(q)
  BY <1>1, <1>2 DEF OnlyData
<1>4. n.semantics => Signals(q)
  BY <1>1, <1>2 DEF Signals
<1>5. Signals(b) => (b[Len(b)].semantics /\ ~n.data) \/ Signals(q)
  BY <1>1, <1>2 DEF Signals
<1>6. Signals(q) => Signals(b) \/ n.semantics
  BY <1>1, <1>2 DEF Signals
<1>7. ASSUME InOrder(b), n.semantics => n.data,
             Signals(b) \/ n.semantics => (n.data => After(n.value))
      PROVE  InOrder(q)
  <2>1. ASSUME NEW k \in DOMAIN q, q[k].semantics PROVE q[k].data
    BY <1>1, <1>2, <1>7, <2>1 DEF InOrder
  <2>2. ASSUME NEW k \in DOMAIN q, NEW m \in DOMAIN q, k <= m, q[k].semantics, q[m].data
        PROVE  After(q[m].value)
    <3>1. CASE m = Len(b)
      <4>1. Signals(b) \/ n.semantics
        BY <1>6, <2>2 DEF Signals
      <4> QED
        BY <1>2, <1>7, <2>2, <3>1, <4>1
    <3>2. CASE m # Len(b)
      <4>1. k # Len(b) /\ k \in DOMAIN b /\ m \in DOMAIN b
        BY <1>1, <1>2, <2>2, <3>2
      <4> QED
        BY <1>2, <1>7, <2>2, <3>2, <4>1 DEF InOrder
    <3> QED
      BY <3>1, <3>2
  <2> QED
    BY <2>1, <2>2 DEF InOrder
<1> QED
  BY <1>2, <1>3, <1>4, <1>5, <1>6, <1>7 DEF q

LEMMA DiscardNewestFacts ==
    ASSUME NEW i \in Item, Len(i.queue) = i.queueSize, NEW n \in Notification
    PROVE  \E q \in Seq(Notification), s \in BOOLEAN :
             LET l == i.lost \/ i.queueSize > 1 IN
             /\ Enqueued(i, n, q, s, l)
             /\ DiscardNewest([i EXCEPT !.anyNew = TRUE, !.lost = l], n) = WithQueue(i, q, s, l)
<1> DEFINE b == i.queue
           had == Last(b).semantics
           f == IF i.queueSize > 1 THEN FlagOverflow(n) ELSE n
           r == IF had THEN FlagSemantics(f) ELSE f
           q == Append(Front(b), r)
           s == i.semantics \/ (had /\ ~n.data)
           l == i.lost \/ i.queueSize > 1
<1>1. /\ b \in Seq(Notification) /\ b # <<>> /\ b[Len(b)] \in Notification
      /\ i.queueSize \in Nat \ {0} /\ i.semantics \in BOOLEAN /\ i.lost \in BOOLEAN
      /\ Len(b) = i.queueSize
  BY DEF Item
<1>2. had \in BOOLEAN /\ (had <=> b[Len(b)].semantics)
  BY <1>1 DEF Notification, Last
<1>3. DiscardNewest([i EXCEPT !.anyNew = TRUE, !.lost = l], n) = WithQueue(i, q, s, l)
  <2> DEFINE j == [i EXCEPT !.anyNew = TRUE, !.lost = l]
  <2>1. j \in Item /\ j.queue = b /\ j.queueSize = i.queueSize /\ j.semantics = i.semantics
    BY <1>1 DEF Item
  <2> HIDE DEF j, b
  <2>2. DiscardNewest(j, n) = [j EXCEPT !.queue = q, !.semantics = s]
    BY <2>1 DEF DiscardNewest
  <2> HIDE DEF q, s, l
  <2>3. [j EXCEPT !.queue = q, !.semantics = s] = WithQueue(i, q, s, l)
    BY DEF WithQueue, Item, j
  <2> QED
    BY <2>2, <2>3 DEF j
<1>4. /\ f \in Notification /\ (f.data <=> n.data) /\ f.value = n.value
      /\ (f.semantics <=> n.semantics) /\ (i.queueSize > 1 /\ n.data => f.overflow)
  BY FlagFacts
<1> HIDE DEF f, had
<1>5. /\ r \in Notification /\ (r.data <=> n.data) /\ r.value = n.value
      /\ (r.semantics <=> n.semantics \/ (had /\ n.data)) /\ (i.queueSize > 1 /\ n.data => r.overflow)
  BY <1>4, FlagFacts
<1> HIDE DEF r
<1>6. /\ q \in Seq(Notification) /\ Len(q) = Len(b) /\ q # <<>> /\ q[Len(b)] = r
      /\ OnlyData(b) /\ n.data => OnlyData(q)
      /\ n.semantics => Signals(q)
      /\ Signals(b) => (b[Len(b)].semantics /\ ~n.data) \/ Signals(q)
      /\ Signals(q) => Signals(b) \/ n.semantics
      /\ /\ InOrder(b) /\ (n.semantics => n.data)
         /\ Signals(b) \/ n.semantics => (n.data => After(n.value))
         => InOrder(q)
  BY <1>1, <1>2, <1>5, ReplacedLastFacts
<1>7. s \in BOOLEAN /\ (i.semantics => s) /\ (s => i.semantics \/ had) /\ l \in BOOLEAN
      /\ (had /\ ~n.data => s)
  BY <1>1, <1>2
<1>8. ~l \/ i.lost \/ (Len(b) = i.queueSize /\ i.queueSize > 1)
  BY <1>1
<1> HIDE DEF q, s
<1>9. had => Signals(b)
  BY <1>1, <1>2 DEF Signals
<1>10. ASSUME OnlyData(b), n.data, i.lost => Len(b) >= 2, l
       PROVE  Len(q) >= 2 /\ Overflowed(q)
  <2>1. i.queueSize > 1
    BY <1>1, <1>10
  <2>2. Len(b) \in DOMAIN q /\ q[Len(b)].overflow
    BY <1>1, <1>5, <1>6, <1>10, <2>1
  <2> QED
    BY <1>1, <1>6, <2>1, <2>2 DEF Overflowed
<1> HIDE DEF l
<1>11. i.semantics \/ Signals(b) \/ n.semantics => s \/ Signals(q)
  BY <1>2, <1>6, <1>7
<1>12. s => i.semantics \/ Signals(b)
  BY <1>7, <1>9
<1>13. Len(q) <= i.queueSize
  BY <1>1, <1>6
<1>14. Enqueued(i, n, q, s, l)
  BY <1>6, <1>7, <1>8, <1>10, <1>11, <1>12, <1>13, Zenon DEF Enqueued
<1> QED
  BY <1>3, <1>6, <1>7, <1>14 DEF l

\* enqueue_notification.
LEMMA EnqueueFacts ==
    ASSUME NEW i \in Item, Len(i.queue) <= i.queueSize, NEW n \in Notification
    PROVE  \E q \in Seq(Notification), s \in BOOLEAN, l \in BOOLEAN :
             Enqueued(i, n, q, s, l) /\ Enqueue(i, n) = WithQueue(i, q, s, l)
<1>1. i.queue \in Seq(Notification) /\ i.semantics \in BOOLEAN /\ i.lost \in BOOLEAN
      /\ i.queueSize \in Nat
  BY DEF Item
<1>2. CASE Len(i.queue) # i.queueSize
  <2>1. Enqueue(i, n) = [[i EXCEPT !.anyNew = TRUE] EXCEPT !.queue = Append(i.queue, n)]
    BY <1>2 DEF Enqueue, Item
  <2>2. Enqueue(i, n) = WithQueue(i, Append(i.queue, n), i.semantics, i.lost)
    BY <2>1 DEF WithQueue, Item
  <2>3. Enqueued(i, n, Append(i.queue, n), i.semantics, i.lost)
    BY <1>2, EnqueueWithRoom
  <2>4. Append(i.queue, n) \in Seq(Notification)
    BY <1>1
  <2> QED
    BY <1>1, <2>2, <2>3, <2>4
<1>3. CASE Len(i.queue) = i.queueSize
  <2> DEFINE l == i.lost \/ i.queueSize > 1
             j == [i EXCEPT !.anyNew = TRUE, !.lost = l]
             m == [i EXCEPT !.anyNew = TRUE]
  <2>1. [m EXCEPT !.lost = m.lost \/ i.queueSize > 1] = j /\ m.lost = i.lost
    BY DEF Item
  <2> HIDE DEF j
  <2>2. Enqueue(i, n) = IF i.discardOldest THEN DiscardOldest(j, n) ELSE DiscardNewest(j, n)
    BY <1>3, <2>1 DEF Enqueue, Item
  <2> USE DEF j
  <2>3. l \in BOOLEAN
    BY <1>1
  <2>4. CASE i.discardOldest
    BY <1>3, <2>2, <2>3, <2>4, DiscardOldestFacts
  <2>5. CASE ~i.discardOldest
    BY <1>3, <2>2, <2>3, <2>5, DiscardNewestFacts
  <2> QED
    BY <2>4, <2>5
<1> QED
  BY <1>2, <1>3

-----------------------------------------------------------------------------
(***************************************************************************)
(* New values.                                                             *)
(***************************************************************************)

\* The fields that accepting a value leaves alone.
Untouched(i, j) ==
    /\ j.kind = i.kind /\ j.mode = i.mode /\ j.interval = i.interval
    /\ j.queueSize = i.queueSize /\ j.discardOldest = i.discardOldest
    /\ j.overflowEvent = i.overflowEvent /\ j.triggered = i.triggered /\ j.gen = i.gen
    /\ j.semanticsDue = i.semanticsDue /\ j.actual = i.actual /\ j.stale = i.stale

\* ItemOK without LatestOK, which does not hold between the two values that one
\* notification hands in, and without DueOK, which does not hold while the armed
\* bit is laid aside for a value sampled before it.
CoreOK(i) == i \in Item /\ HeldBackOK(i) /\ LossOK(i) /\ BitsOK(i)

\* The bit is not lost on the way from i to j.
SignalKept(i, j) == i.semantics \/ Signals(i.queue) => j.semantics \/ Signals(j.queue)

LEMMA WithQueueFacts ==
    ASSUME NEW i \in Item, NEW q \in Seq(Notification), NEW s \in BOOLEAN, NEW l \in BOOLEAN
    PROVE  LET j == WithQueue(i, q, s, l) IN
           /\ j \in Item /\ Untouched(i, j)
           /\ j.queue = q /\ j.semantics = s /\ j.lost = l
           /\ j.last = i.last /\ j.skipped = i.skipped /\ j.skippedBefore = i.skippedBefore
  BY DEF WithQueue, Item, Untouched

\* A value that is held back gets the time it is due.
Restamped(v, ts, f, w) == w = [v EXCEPT !.ts = ts, !.forgotten = f]

LEMMA ValueFacts ==
    /\ NoValue \in Value0 /\ NoValue.gen = 0 /\ NoValue.val = -1
    /\ \A v \in Value0 : /\ v.gen \in Nat /\ v.ts \in Nat /\ v.val \in {-1, 0} \cup Values
                         /\ v.forgotten \in BOOLEAN
                         /\ v # NoValue => v.val \in {0} \cup Values /\ v.val \in Nat
    /\ \A v \in Value0, ts \in Nat, f \in BOOLEAN : \A w :
         v # NoValue /\ Restamped(v, ts, f, w) =>
           w \in Value0 /\ w # NoValue /\ w.val = v.val /\ w.gen = v.gen /\ w.forgotten = f
<1>1. NoValue \in Value0 /\ NoValue.gen = 0 /\ NoValue.val = -1 /\ NoValue.ts = 0 /\ NoValue.forgotten = FALSE
  BY DEF NoValue, Value0
<1>2. \A v \in Value0 : v = NoValue \/ v \in [val : {0} \cup Values, ts : Nat, gen : Nat, forgotten : BOOLEAN]
  BY DEF Value0
<1>3. \A x \in {0} \cup Values : x \in Nat
  BY ConstantsOK
<1>4. \A v \in [val : {0} \cup Values, ts : Nat, gen : Nat, forgotten : BOOLEAN] :
        /\ v.val \in {0} \cup Values /\ v.val \in Nat /\ v.ts \in Nat /\ v.gen \in Nat /\ v # NoValue
        /\ v \in Value0 /\ v.forgotten \in BOOLEAN
  <2> TAKE v \in [val : {0} \cup Values, ts : Nat, gen : Nat, forgotten : BOOLEAN]
  <2>1. v.val \in {0} \cup Values /\ v.val \in Nat
    BY <1>3
  <2>2. v # NoValue
    BY <1>1, <2>1
  <2> QED
    BY <2>1, <2>2 DEF Value0
<1>5. ASSUME NEW v \in [val : {0} \cup Values, ts : Nat, gen : Nat, forgotten : BOOLEAN],
             NEW ts \in Nat, NEW f \in BOOLEAN
      PROVE  LET w == [v EXCEPT !.ts = ts, !.forgotten = f] IN
             /\ w \in [val : {0} \cup Values, ts : Nat, gen : Nat, forgotten : BOOLEAN]
             /\ w.val = v.val /\ w.gen = v.gen /\ w.forgotten = f
  OBVIOUS
<1>6. \A v \in Value0 : /\ v.gen \in Nat /\ v.ts \in Nat /\ v.val \in {-1, 0} \cup Values
                        /\ v.forgotten \in BOOLEAN
                        /\ v # NoValue => v.val \in {0} \cup Values /\ v.val \in Nat
  <2> TAKE v \in Value0
  <2>1. CASE v = NoValue
    <3>1. v.gen \in Nat /\ v.ts \in Nat /\ v.val = -1
      BY <1>1, <2>1
    <3>2. v.forgotten \in BOOLEAN
      BY <1>1, <2>1
    <3> QED
      BY <2>1, <3>1, <3>2
  <2>2. CASE v # NoValue
    BY <1>2, <1>4, <2>2
  <2> QED
    BY <2>1, <2>2
<1>7. ASSUME NEW v \in Value0, NEW ts \in Nat, NEW f \in BOOLEAN, v # NoValue,
             NEW w, Restamped(v, ts, f, w)
      PROVE  w \in Value0 /\ w # NoValue /\ w.val = v.val /\ w.gen = v.gen /\ w.forgotten = f
  <2>1. v \in [val : {0} \cup Values, ts : Nat, gen : Nat, forgotten : BOOLEAN]
    BY <1>2, <1>7
  <2>2. /\ w \in [val : {0} \cup Values, ts : Nat, gen : Nat, forgotten : BOOLEAN]
        /\ w.val = v.val /\ w.gen = v.gen /\ w.forgotten = f
    BY <1>5, <1>7, <2>1 DEF Restamped
  <2>3. w \in Value0 /\ w # NoValue
    BY <1>4, <2>2
  <2> QED
    BY <2>2, <2>3
<1> QED
  BY <1>1, <1>6, <1>7

\* The value is queued.
Queues(i, v, j) ==
    LET n == IF i.semantics THEN FlagSemantics(DataNotification(v)) ELSE DataNotification(v)
    IN  j = Enqueue([i EXCEPT !.last = v, !.semantics = FALSE], n)

LEMMA AcceptQueues ==
    ASSUME NEW i, CoreOK(i), ~i.skippedBefore, IsData(i) \/ i.queue = <<>>,
           NEW v \in Value0, v # NoValue, i.semantics \/ Signals(i.queue) => After(v),
           NEW j, Queues(i, v, j)
    PROVE  /\ CoreOK(j) /\ Untouched(i, j) /\ ~j.skippedBefore
           /\ j.last = v /\ j.skipped = i.skipped /\ SignalKept(i, j)
<1> DEFINE m == [i EXCEPT !.last = v, !.semantics = FALSE]
           n == IF i.semantics THEN FlagSemantics(DataNotification(v)) ELSE DataNotification(v)
<1>1. i \in Item
  BY DEF CoreOK
<1>2. /\ m \in Item /\ Untouched(i, m) /\ m.queue = i.queue /\ m.lost = i.lost /\ m.last = v
      /\ m.semantics = FALSE /\ m.skipped = i.skipped /\ m.skippedBefore = i.skippedBefore
  BY <1>1 DEF Item, Untouched
<1>3. DataNotification(v) \in Notification
  BY DEF DataNotification, Notification
<1>4. /\ n \in Notification /\ n.data /\ n.value = v /\ (n.semantics <=> i.semantics)
  <2>1. DataNotification(v).data /\ DataNotification(v).value = v /\ ~DataNotification(v).semantics
    BY DEF DataNotification
  <2> QED
    BY <1>3, <2>1, FlagFacts
<1>13. j = Enqueue(m, n)
  BY DEF Queues
<1> HIDE DEF m, n
<1>5. Len(m.queue) <= m.queueSize
  BY <1>2 DEF CoreOK, HeldBackOK, Untouched
<1>6. PICK q \in Seq(Notification), s \in BOOLEAN, l \in BOOLEAN :
        Enqueued(m, n, q, s, l) /\ j = WithQueue(m, q, s, l)
  <2>1. m \in Item /\ n \in Notification
    BY <1>2, <1>4
  <2>2. \E q \in Seq(Notification), s \in BOOLEAN, l \in BOOLEAN :
          Enqueued(m, n, q, s, l) /\ Enqueue(m, n) = WithQueue(m, q, s, l)
    BY <1>5, <2>1, EnqueueFacts
  <2> QED
    BY <1>13, <2>2, Zenon
<1>7. /\ j \in Item /\ Untouched(m, j) /\ j.queue = q /\ j.semantics = s /\ j.lost = l
      /\ j.last = m.last /\ j.skipped = m.skipped /\ j.skippedBefore = m.skippedBefore
  BY <1>2, <1>6, WithQueueFacts
<1>8. /\ Untouched(i, j) /\ j.last = v /\ j.skipped = i.skipped /\ j.skippedBefore = i.skippedBefore
  BY <1>2, <1>7 DEF Untouched
<1>9. /\ Len(q) <= i.queueSize
      /\ OnlyData(i.queue) => OnlyData(q)
      /\ ~l \/ i.lost \/ (Len(i.queue) = i.queueSize /\ i.queueSize > 1)
      /\ /\ OnlyData(i.queue)
         /\ i.lost => Len(i.queue) >= 2 /\ Overflowed(i.queue)
         => (l => Len(q) >= 2 /\ Overflowed(q))
      /\ Signals(i.queue) \/ i.semantics => s \/ Signals(q)
      /\ s => Signals(i.queue)
      /\ Signals(q) => Signals(i.queue) \/ i.semantics
      /\ InOrder(i.queue) => InOrder(q)
  BY <1>2, <1>4, <1>6 DEF Enqueued, Untouched
<1>10. HeldBackOK(j)
  BY <1>7, <1>8, <1>9 DEF CoreOK, HeldBackOK, IsData, Untouched
<1>11. LossOK(j)
  <2>1. CASE IsData(i)
    <3>1. j.lost => Len(j.queue) >= 2 /\ Overflowed(j.queue)
      BY <1>7, <1>9, <2>1 DEF CoreOK, LossOK
    <3> QED
      BY <1>7, <1>8, <1>9, <2>1, <3>1 DEF CoreOK, LossOK, IsData, Untouched
  <2>2. CASE ~IsData(i)
    <3>1. Len(i.queue) = 0 /\ i.queueSize \in Nat \ {0}
      BY <1>1, <2>2 DEF Item
    <3>2. ~l \/ i.lost
      BY <1>9, <3>1
    <3> QED
      BY <1>7, <1>8, <2>2, <3>2 DEF CoreOK, LossOK, IsData, Untouched
  <2> QED
    BY <2>1, <2>2
<1>12. BitsOK(j) /\ SignalKept(i, j)
  <2>1. SignalKept(i, j)
    BY <1>7, <1>9 DEF SignalKept
  <2>2. InOrder(j.queue)
    BY <1>7, <1>9 DEF CoreOK, BitsOK
  <2>3. (j.semantics \/ Signals(j.queue) => j.gen > 0) /\ (Signals(j.queue) => After(j.last))
    BY <1>7, <1>8, <1>9 DEF CoreOK, BitsOK, Untouched
  <2>4. j.skipped # NoValue /\ j.gen > 0 => After(j.skipped)
    BY <1>8 DEF CoreOK, BitsOK, Untouched
  <2> QED
    BY <2>1, <2>2, <2>3, <2>4 DEF BitsOK
<1> QED
  BY <1>7, <1>8, <1>10, <1>11, <1>12 DEF CoreOK

\* The three things notify_data_value does with a value, seen from outside: it is
\* filtered, held back, or queued.
Filtered(i, v, r) ==
    /\ ~r.announced /\ i.last # NoValue /\ (IsData(i) => v.val = i.last.val)
    /\ r.item.last = i.last /\ r.item.skipped = i.skipped /\ r.item.queue = i.queue
HeldBack(i, v, r) ==
    /\ r.announced /\ r.item.last = i.last /\ r.item.queue = i.queue
    /\ r.item.skipped # NoValue /\ r.item.skipped.val = v.val
Queued(i, v, r) ==
    r.announced /\ r.item.last = v /\ r.item.skipped = i.skipped

Handled(i, v, r) ==
    /\ CoreOK(r.item) /\ Untouched(i, r.item) /\ ~r.item.skippedBefore
    /\ SignalKept(i, r.item)
    /\ Filtered(i, v, r) \/ HeldBack(i, v, r) \/ Queued(i, v, r)

\* The value is held back.
Holds(i, v, j) ==
    j = [i EXCEPT !.skipped = Shifted(i, v), !.skippedBefore = FALSE]

LEMMA HoldFacts ==
    ASSUME NEW i, CoreOK(i), IsData(i), i.last # NoValue,
           NEW v \in Value0, v # NoValue,
           NEW j, Holds(i, v, j)
    PROVE  /\ CoreOK(j) /\ Untouched(i, j) /\ ~j.skippedBefore /\ SignalKept(i, j)
           /\ j.last = i.last /\ j.queue = i.queue /\ j.skipped # NoValue /\ j.skipped.val = v.val
<1> DEFINE w == Shifted(i, v)
<1>1. i \in Item /\ i.gen \in Nat /\ i.last \in Value0
  BY DEF CoreOK, Item
<1>2. i.last.ts + Delta(i) \in Nat
  <2>1. i.last.ts \in Nat
    BY <1>1, ValueFacts
  <2>2. i.interval \in Nat \cup {Subscription}
    BY <1>1 DEF Item
  <2>3. Delta(i) \in Nat
    BY <2>2 DEF Delta, Subscription
  <2> QED
    BY <2>1, <2>3
<1>3. w \in Value0 /\ w # NoValue /\ w.val = v.val /\ (i.gen > 0 => After(w))
  <2>1. PICK ts : ts = i.last.ts + Delta(i)
    OBVIOUS
  <2>2. PICK f \in BOOLEAN : f = (v.forgotten \/ v.gen < i.gen)
    BY ValueFacts
  <2>3. Restamped(v, ts, f, w)
    BY <2>1, <2>2 DEF Restamped, Shifted
  <2> HIDE DEF w
  <2>4. ts \in Nat /\ i.gen \in Nat /\ v.gen \in Nat
    BY <1>1, <1>2, <2>1, ValueFacts
  <2>5. w \in Value0 /\ w # NoValue /\ w.val = v.val /\ w.gen = v.gen /\ w.forgotten = f
    BY <2>3, <2>4, ValueFacts
  <2>6. i.gen > 0 => w.gen > 0 \/ f
    <3>1. v.gen < i.gen => f
      BY <2>2, Zenon
    <3>2. i.gen > 0 => v.gen > 0 \/ v.gen < i.gen
      BY <2>4
    <3> QED
      BY <2>5, <3>1, <3>2
  <2>7. i.gen > 0 => After(w)
    BY <2>5, <2>6, Zenon DEF After
  <2> QED
    BY <2>5, <2>7
<1>4. j = [i EXCEPT !.skipped = w, !.skippedBefore = FALSE]
  BY DEF Holds
<1> HIDE DEF w
<1>5. /\ j \in Item /\ Untouched(i, j) /\ ~j.skippedBefore /\ j.last = i.last /\ j.queue = i.queue
      /\ j.skipped = w /\ j.semantics = i.semantics /\ j.lost = i.lost
  BY <1>1, <1>3, <1>4 DEF Item, Untouched
<1>6. HeldBackOK(j)
  BY <1>5 DEF CoreOK, HeldBackOK, IsData, Untouched
<1>7. LossOK(j)
  BY <1>5 DEF CoreOK, LossOK, IsData, Untouched
<1>8. BitsOK(j)
  BY <1>3, <1>5 DEF CoreOK, BitsOK, Untouched
<1> QED
  BY <1>3, <1>5, <1>6, <1>7, <1>8 DEF CoreOK, SignalKept

\* notify_data_value once the held back value has been dealt with.
LEMMA AcceptFacts ==
    ASSUME NEW i, CoreOK(i), ~i.skippedBefore, IsData(i) \/ i.queue = <<>>,
           NEW v \in Value0, v # NoValue, i.semantics \/ Signals(i.queue) => After(v),
           NEW fromTick
    PROVE  Handled(i, v, Accept(i, v, fromTick)) /\ Accept(i, v, fromTick).announced \in BOOLEAN
<1> DEFINE r == Accept(i, v, fromTick)
<1>1. CASE ~MatchesFilter(i, v)
  <2>1. r = [item |-> i, announced |-> FALSE]
    BY <1>1 DEF Accept
  <2>2. r.item = i /\ r.announced = FALSE
    BY <2>1
  <2> HIDE DEF r
  <2>3. i.last # NoValue /\ (IsData(i) => v.val = i.last.val)
    BY <1>1 DEF MatchesFilter, HasLastValue
  <2>4. Untouched(i, i) /\ SignalKept(i, i)
    BY DEF Untouched, SignalKept
  <2> QED
    BY <2>2, <2>3, <2>4 DEF Handled, Filtered, r
<1>2. CASE MatchesFilter(i, v) /\ ~MatchesSampling(i, v, fromTick)
  <2>0. PICK j : Holds(i, v, j)
    BY DEF Holds
  <2>1. r = [item |-> j, announced |-> TRUE]
    BY <1>2, <2>0 DEF Accept, Holds
  <2>2. IsData(i) /\ i.last # NoValue
    BY <1>2 DEF MatchesFilter, MatchesSampling, HasLastValue
  <2>3. /\ CoreOK(j) /\ Untouched(i, j) /\ ~j.skippedBefore /\ SignalKept(i, j)
        /\ j.last = i.last /\ j.queue = i.queue /\ j.skipped # NoValue /\ j.skipped.val = v.val
    BY <2>0, <2>2, HoldFacts
  <2>4. r.item = j /\ r.announced = TRUE
    BY <2>1
  <2> HIDE DEF r
  <2> QED
    BY <2>3, <2>4 DEF Handled, HeldBack, r
<1>3. CASE MatchesFilter(i, v) /\ MatchesSampling(i, v, fromTick)
  <2>0. PICK j : Queues(i, v, j)
    BY DEF Queues
  <2>1. r = [item |-> j, announced |-> TRUE]
    BY <1>3, <2>0 DEF Accept, Queues
  <2>2. /\ CoreOK(j) /\ Untouched(i, j) /\ ~j.skippedBefore
        /\ j.last = v /\ j.skipped = i.skipped /\ SignalKept(i, j)
    BY <2>0, AcceptQueues
  <2>3. r.item = j /\ r.announced = TRUE
    BY <2>1
  <2> HIDE DEF r
  <2> QED
    BY <2>2, <2>3 DEF Handled, Queued, r
<1> QED
  BY <1>1, <1>2, <1>3
LEMMA AcceptShape ==
    ASSUME NEW i, NEW v, NEW fromTick
    PROVE  \E j : \E b \in BOOLEAN : Accept(i, v, fromTick) = [item |-> j, announced |-> b]
<1>1. CASE ~MatchesFilter(i, v)
  BY <1>1 DEF Accept
<1>2. CASE MatchesFilter(i, v) /\ ~MatchesSampling(i, v, fromTick)
  BY <1>2 DEF Accept
<1>3. CASE MatchesFilter(i, v) /\ MatchesSampling(i, v, fromTick)
  BY <1>3 DEF Accept
<1> QED
  BY <1>1, <1>2, <1>3

\* The fields other than the armed bit.
SameBut(i, j) ==
    /\ Untouched(i, j) /\ j.queue = i.queue /\ j.last = i.last /\ j.skipped = i.skipped
    /\ j.skippedBefore = i.skippedBefore /\ j.lost = i.lost

\* Laying the armed bit aside and restoring it.
WithBit(i, s, j) == j = [i EXCEPT !.semantics = s]

LEMMA WithBitFacts ==
    ASSUME NEW i, CoreOK(i), NEW s \in BOOLEAN, NEW j, WithBit(i, s, j),
           s => IsData(i) /\ i.gen > 0
    PROVE  CoreOK(j) /\ SameBut(i, j) /\ (j.semantics <=> s)
<1>1. i \in Item
  BY DEF CoreOK
<1>2. j \in Item /\ SameBut(i, j) /\ j.semantics = s
  BY <1>1 DEF WithBit, Item, SameBut, Untouched
<1>3. HeldBackOK(j)
  BY <1>2 DEF CoreOK, HeldBackOK, IsData, SameBut, Untouched
<1>4. LossOK(j)
  BY <1>2 DEF CoreOK, LossOK, IsData, SameBut, Untouched
<1>5. BitsOK(j)
  BY <1>2 DEF CoreOK, BitsOK, SameBut, Untouched
<1> QED
  BY <1>2, <1>3, <1>4, <1>5 DEF CoreOK

\* A value sampled before the armed bit passes with the bit laid aside.
LEMMA AcceptHeldBackFacts ==
    ASSUME NEW i, CoreOK(i), ~i.skippedBefore, IsData(i),
           NEW v \in Value0, v # NoValue, NEW before \in BOOLEAN, NEW fromTick,
           i.gen > 0 /\ (~before \/ Signals(i.queue)) => After(v)
    PROVE  /\ Handled(i, v, AcceptHeldBack(i, v, before, fromTick))
           /\ AcceptHeldBack(i, v, before, fromTick).announced \in BOOLEAN
<1>1. i.semantics \/ Signals(i.queue) => i.gen > 0
  BY DEF CoreOK, BitsOK
<1>2. CASE ~before
  <2>1. i.semantics \/ Signals(i.queue) => After(v)
    BY <1>1, <1>2
  <2>2. AcceptHeldBack(i, v, before, fromTick) = Accept(i, v, fromTick)
    BY <1>2 DEF AcceptHeldBack
  <2>3. Handled(i, v, Accept(i, v, fromTick)) /\ Accept(i, v, fromTick).announced \in BOOLEAN
    BY <2>1, AcceptFacts
  <2> QED
    BY <2>2, <2>3
<1>3. CASE before
  <2> DEFINE r == AcceptHeldBack(i, v, before, fromTick)
  <2>1. PICK m : WithBit(i, FALSE, m)
    BY DEF WithBit
  <2>2. CoreOK(m) /\ SameBut(i, m) /\ ~m.semantics
    BY <2>1, WithBitFacts
  <2>3. PICK j : \E b \in BOOLEAN : Accept(m, v, fromTick) = [item |-> j, announced |-> b]
    BY AcceptShape
  <2>15. PICK b \in BOOLEAN : Accept(m, v, fromTick) = [item |-> j, announced |-> b]
    BY <2>3
  <2>4. Handled(m, v, [item |-> j, announced |-> b])
    <3>1. IsData(m) /\ ~m.skippedBefore /\ m.queue = i.queue
      BY <2>2 DEF SameBut, Untouched, IsData
    <3>2. m.semantics \/ Signals(m.queue) => After(v)
      BY <1>1, <1>3, <2>2, <3>1
    <3> QED
      BY <2>2, <2>15, <3>1, <3>2, AcceptFacts
  <2>5. /\ CoreOK(j) /\ Untouched(m, j) /\ ~j.skippedBefore /\ SignalKept(m, j)
        /\ Filtered(m, v, [item |-> j, announced |-> b])
           \/ HeldBack(m, v, [item |-> j, announced |-> b])
           \/ Queued(m, v, [item |-> j, announced |-> b])
    BY <2>4 DEF Handled
  <2>6. PICK s \in BOOLEAN : s <=> j.semantics \/ i.semantics
    OBVIOUS
  <2>7. j.semantics \in BOOLEAN /\ i.semantics \in BOOLEAN
    BY <2>5 DEF CoreOK, Item
  <2>8. s = (j.semantics \/ i.semantics)
    BY <2>6, <2>7
  <2>9. PICK k : WithBit(j, s, k)
    BY DEF WithBit
  <2>10. r = [item |-> k, announced |-> b]
    <3>1. r = [[item |-> j, announced |-> b] EXCEPT !.item.semantics = @ \/ i.semantics]
      BY <1>3, <2>1, <2>15 DEF AcceptHeldBack, WithBit
    <3>2. [[item |-> j, announced |-> b] EXCEPT !.item.semantics = @ \/ i.semantics]
            = [item |-> [j EXCEPT !.semantics = j.semantics \/ i.semantics], announced |-> b]
      OBVIOUS
    <3> QED
      BY <2>8, <2>9, <3>1, <3>2 DEF WithBit
  <2>11. CoreOK(k) /\ SameBut(j, k) /\ (k.semantics <=> j.semantics \/ i.semantics)
    <3>1. s => IsData(j) /\ j.gen > 0
      <4>1. IsData(j) /\ j.gen = i.gen
        BY <2>2, <2>5 DEF Untouched, SameBut, IsData
      <4>2. j.semantics => j.gen > 0
        BY <2>5 DEF CoreOK, BitsOK
      <4> QED
        BY <1>1, <2>6, <4>1, <4>2
    <3> QED
      BY <2>5, <2>6, <2>9, <3>1, WithBitFacts
  <2>12. r.item = k /\ r.announced = b
    BY <2>10
  <2> HIDE DEF r
  <2>13. Untouched(i, k) /\ ~k.skippedBefore /\ SignalKept(i, k)
    BY <2>2, <2>5, <2>11 DEF Untouched, SameBut, SignalKept
  <2>14. Filtered(i, v, r) \/ HeldBack(i, v, r) \/ Queued(i, v, r)
    BY <2>2, <2>5, <2>11, <2>12 DEF Filtered, HeldBack, Queued, SameBut, Untouched, IsData
  <2> QED
    BY <2>11, <2>12, <2>13, <2>14 DEF Handled, r
<1> QED
  BY <1>2, <1>3

\* The held back value is taken out of its place.
Takes(i, j) == j = [i EXCEPT !.skipped = NoValue, !.skippedBefore = FALSE]

LEMMA TakeFacts ==
    ASSUME NEW i, CoreOK(i), NEW j, Takes(i, j)
    PROVE  /\ CoreOK(j) /\ Untouched(i, j) /\ ~j.skippedBefore /\ j.skipped = NoValue
           /\ j.queue = i.queue /\ j.last = i.last /\ SignalKept(i, j)
<1>1. i \in Item
  BY DEF CoreOK
<1>2. /\ j \in Item /\ Untouched(i, j) /\ ~j.skippedBefore /\ j.skipped = NoValue
      /\ j.queue = i.queue /\ j.last = i.last /\ j.semantics = i.semantics /\ j.lost = i.lost
  BY <1>1, ValueFacts, ZenonT(60) DEF Takes, Item, Untouched
<1>3. HeldBackOK(j)
  BY <1>2 DEF CoreOK, HeldBackOK, IsData, Untouched
<1>4. LossOK(j)
  BY <1>2 DEF CoreOK, LossOK, IsData, Untouched
<1>5. BitsOK(j)
  BY <1>2 DEF CoreOK, BitsOK, Untouched
<1> QED
  BY <1>2, <1>3, <1>4, <1>5 DEF CoreOK, SignalKept

\* The history fields play no part in CoreOK.
WithHistory(i, a, b, j) == j = [i EXCEPT !.actual = a, !.stale = b]

LEMMA WithHistoryFacts ==
    ASSUME NEW i, CoreOK(i), NEW a \in {-1, 0} \cup Values, NEW b \in BOOLEAN,
           NEW j, WithHistory(i, a, b, j)
    PROVE  /\ CoreOK(j) /\ j.actual = a /\ (j.stale <=> b)
           /\ j.kind = i.kind /\ j.mode = i.mode /\ j.overflowEvent = i.overflowEvent
           /\ j.queue = i.queue /\ j.last = i.last /\ j.skipped = i.skipped
           /\ j.semantics = i.semantics /\ j.semanticsDue = i.semanticsDue
<1>1. i \in Item
  BY DEF CoreOK
<1>2. /\ j \in Item /\ j.actual = a /\ j.stale = b
      /\ j.kind = i.kind /\ j.mode = i.mode /\ j.overflowEvent = i.overflowEvent
      /\ j.queue = i.queue /\ j.last = i.last /\ j.skipped = i.skipped
      /\ j.semantics = i.semantics /\ j.semanticsDue = i.semanticsDue
      /\ j.lost = i.lost /\ j.gen = i.gen /\ j.queueSize = i.queueSize
      /\ j.skippedBefore = i.skippedBefore
  BY <1>1 DEF WithHistory, Item
<1>3. HeldBackOK(j)
  BY <1>2 DEF CoreOK, HeldBackOK, IsData
<1>4. LossOK(j)
  BY <1>2 DEF CoreOK, LossOK, IsData
<1>5. BitsOK(j)
  BY <1>2 DEF CoreOK, BitsOK
<1> QED
  BY <1>2, <1>3, <1>4, <1>5 DEF CoreOK

\* What a call leaves of an item whose id it did not announce was pending before.
Quietly(i, j) == Pending(j) => Pending(i)

\* notify_data_value, the held back value: f is what it answers.
Prepared(i, v, now1, f) ==
    LET taken == [i EXCEPT !.skipped = NoValue, !.skippedBefore = FALSE]
        usable == i.skipped # NoValue /\ i.skipped.ts <= now1 /\ i.skipped.ts <= v.ts
    IN  f = IF usable THEN AcceptHeldBack(taken, i.skipped, i.skippedBefore, FALSE)
                      ELSE [item |-> IF i.skipped = NoValue THEN i ELSE taken,
                            announced |-> FALSE]

Usable(i, v, now1) == i.skipped # NoValue /\ i.skipped.ts <= now1 /\ i.skipped.ts <= v.ts

LEMMA PreparedFacts ==
    ASSUME NEW i, CoreOK(i), IsData(i), NEW v, NEW now1, NEW f, Prepared(i, v, now1, f)
    PROVE  /\ CoreOK(f.item) /\ Untouched(i, f.item) /\ ~f.item.skippedBefore
           /\ SignalKept(i, f.item) /\ f.announced \in BOOLEAN
           /\ ~Usable(i, v, now1) => f.item.skipped = NoValue
           /\ ~f.announced => f.item.queue = i.queue /\ f.item.skipped = NoValue
<1>1. PICK t : Takes(i, t)
  BY DEF Takes
<1>2. /\ CoreOK(t) /\ Untouched(i, t) /\ ~t.skippedBefore /\ t.skipped = NoValue
      /\ t.queue = i.queue /\ t.last = i.last /\ SignalKept(i, t)
  BY <1>1, TakeFacts
<1>3. CASE Usable(i, v, now1)
  <2>1. f = AcceptHeldBack(t, i.skipped, i.skippedBefore, FALSE)
    BY <1>1, <1>3 DEF Prepared, Usable, Takes
  <2>2. i.skipped # NoValue /\ i.skipped \in Value0 /\ i.skippedBefore \in BOOLEAN
    BY <1>3 DEF CoreOK, Item, Usable
  <2>3. t.gen > 0 /\ (~i.skippedBefore \/ Signals(t.queue)) => After(i.skipped)
    BY <1>2, <2>2 DEF CoreOK, BitsOK, Untouched
  <2>4. IsData(t)
    BY <1>2 DEF IsData, Untouched
  <2>5. Handled(t, i.skipped, f) /\ f.announced \in BOOLEAN
    BY <1>2, <2>1, <2>2, <2>3, <2>4, AcceptHeldBackFacts
  <2>6. CoreOK(f.item) /\ Untouched(t, f.item) /\ ~f.item.skippedBefore /\ SignalKept(t, f.item)
    BY <2>5 DEF Handled
  <2>7. ~f.announced => f.item.queue = i.queue /\ f.item.skipped = NoValue
    BY <1>2, <2>5 DEF Handled, Filtered, HeldBack, Queued
  <2>8. Untouched(i, f.item) /\ SignalKept(i, f.item)
    BY <1>2, <2>6 DEF Untouched, SignalKept
  <2> QED
    BY <1>3, <2>5, <2>6, <2>7, <2>8
<1>4. CASE ~Usable(i, v, now1)
  <2>1. f = [item |-> IF i.skipped = NoValue THEN i ELSE t, announced |-> FALSE]
    BY <1>1, <1>4 DEF Prepared, Usable, Takes
  <2>2. f.item = (IF i.skipped = NoValue THEN i ELSE t) /\ f.announced = FALSE
    BY <2>1
  <2>3. i.skipped = NoValue => ~i.skippedBefore
    BY DEF CoreOK, HeldBackOK
  <2>4. Untouched(i, i) /\ SignalKept(i, i)
    BY DEF Untouched, SignalKept
  <2> QED
    BY <1>2, <2>2, <2>3, <2>4
<1> QED
  BY <1>3, <1>4

\* notify_data_value on an item that is not disabled.
LEMMA NotifyEnabledFacts ==
    ASSUME NEW i, ItemOK(i), IsData(i), NEW v \in Value0, v # NoValue, v.gen = i.gen, NEW now1,
           NEW r, r = NotifyEnabled(i, v, now1)
    PROVE  /\ ItemOK(r.item) /\ r.item.kind = i.kind /\ r.announced \in BOOLEAN
           /\ ~r.announced => Quietly(i, r.item)
<1>1. PICK f : Prepared(i, v, now1, f)
  BY DEF Prepared
<1>2. CoreOK(i) /\ DueOK(i)
  BY DEF ItemOK, CoreOK
<1>3. /\ CoreOK(f.item) /\ Untouched(i, f.item) /\ ~f.item.skippedBefore
      /\ SignalKept(i, f.item) /\ f.announced \in BOOLEAN
      /\ ~Usable(i, v, now1) => f.item.skipped = NoValue
      /\ ~f.announced => f.item.queue = i.queue /\ f.item.skipped = NoValue
  BY <1>1, <1>2, PreparedFacts
<1>4. PICK s : s = Accept(f.item, v, FALSE)
  OBVIOUS
<1>5. Handled(f.item, v, s) /\ s.announced \in BOOLEAN
  <2>1. IsData(f.item) /\ f.item.gen = i.gen
    BY <1>3 DEF IsData, Untouched
  <2>2. f.item.semantics \/ Signals(f.item.queue) => After(v)
    BY <1>3, <2>1 DEF CoreOK, BitsOK, After
  <2> QED
    BY <1>3, <1>4, <2>1, <2>2, AcceptFacts
<1>6. CoreOK(s.item) /\ Untouched(f.item, s.item) /\ SignalKept(f.item, s.item)
  BY <1>5 DEF Handled
<1>7. PICK b \in BOOLEAN :
        b <=> /\ Usable(i, v, now1) /\ f.item.skipped # NoValue
              /\ s.item.skipped = f.item.skipped /\ s.item.skipped.val # v.val
  OBVIOUS
<1>8. PICK j : WithHistory(s.item, v.val, b, j)
  BY DEF WithHistory
<1>9. r.item = j /\ (r.announced <=> f.announced \/ s.announced) /\ r.announced \in BOOLEAN
  <2>1. b = (/\ Usable(i, v, now1) /\ f.item.skipped # NoValue
             /\ s.item.skipped = f.item.skipped /\ s.item.skipped.val # v.val)
    BY <1>7
  <2>2. r = [item |-> [s.item EXCEPT
                         !.actual = v.val,
                         !.stale = /\ Usable(i, v, now1) /\ f.item.skipped # NoValue
                                   /\ s.item.skipped = f.item.skipped
                                   /\ s.item.skipped.val # v.val],
             announced |-> f.announced \/ s.announced]
    BY <1>1, <1>4, Zenon DEF NotifyEnabled, Prepared, Usable
  <2>3. r = [item |-> j, announced |-> f.announced \/ s.announced]
    BY <1>8, <2>1, <2>2 DEF WithHistory
  <2>4. PICK c \in BOOLEAN : c = (f.announced \/ s.announced)
    OBVIOUS
  <2>5. r = [item |-> j, announced |-> c]
    BY <2>3, <2>4
  <2>6. r.item = j /\ r.announced = c
    BY <2>5
  <2> QED
    BY <2>4, <2>6
<1>10. /\ CoreOK(j) /\ j.actual = v.val /\ (j.stale <=> b)
       /\ j.kind = s.item.kind /\ j.mode = s.item.mode /\ j.overflowEvent = s.item.overflowEvent
       /\ j.queue = s.item.queue /\ j.last = s.item.last /\ j.skipped = s.item.skipped
       /\ j.semantics = s.item.semantics /\ j.semanticsDue = s.item.semanticsDue
  <2>1. v.val \in {-1, 0} \cup Values
    BY ValueFacts
  <2>2. PICK h, a : h = s.item /\ a = v.val
    OBVIOUS
  <2>3. CoreOK(h) /\ a \in {-1, 0} \cup Values /\ WithHistory(h, a, b, j)
    BY <1>6, <1>8, <2>1, <2>2
  <2>4. /\ CoreOK(j) /\ j.actual = a /\ (j.stale <=> b)
        /\ j.kind = h.kind /\ j.mode = h.mode /\ j.overflowEvent = h.overflowEvent
        /\ j.queue = h.queue /\ j.last = h.last /\ j.skipped = h.skipped
        /\ j.semantics = h.semantics /\ j.semanticsDue = h.semanticsDue
    BY <2>3, WithHistoryFacts
  <2> QED
    BY <2>2, <2>4
<1>11. DueOK(j)
  <2>1. j.semanticsDue = i.semanticsDue /\ SignalKept(i, j)
    BY <1>3, <1>6, <1>10 DEF Untouched, SignalKept
  <2> QED
    BY <1>2, <2>1 DEF DueOK, SignalKept
<1>12. LatestOK(j)
  <2>1. s.item.skipped = f.item.skipped \/ (s.item.skipped # NoValue /\ s.item.skipped.val = v.val)
    BY <1>5 DEF Handled, Filtered, HeldBack, Queued
  <2>2. s.item.skipped = NoValue => s.item.last.val = v.val
    <3>1. IsData(f.item)
      BY <1>3 DEF IsData, Untouched
    <3> QED
      BY <1>5, <3>1 DEF Handled, Filtered, HeldBack, Queued
  <2>3. s.item.skipped # NoValue /\ ~b => s.item.skipped.val = v.val
    BY <1>3, <1>7, <2>1
  <2> QED
    BY <1>10, <2>2, <2>3 DEF LatestOK
<1>13. ~r.announced => Quietly(i, j)
  <2>1. ASSUME ~r.announced PROVE j.queue = i.queue /\ j.skipped = NoValue
    <3>1. ~f.announced /\ ~s.announced
      BY <1>9, <2>1
    <3>2. s.item.queue = f.item.queue /\ s.item.skipped = f.item.skipped
      BY <1>5, <3>1 DEF Handled, Filtered, HeldBack, Queued
    <3> QED
      BY <1>3, <1>10, <3>1, <3>2
  <2>2. j.mode = i.mode /\ j.overflowEvent = i.overflowEvent
    BY <1>3, <1>6, <1>10 DEF Untouched
  <2> QED
    BY <2>1, <2>2 DEF Quietly, Pending, IsReporting, HasNotifications
<1>14. ItemOK(j) /\ j.kind = i.kind
  BY <1>3, <1>6, <1>10, <1>11, <1>12 DEF ItemOK, CoreOK, Untouched
<1> QED
  BY <1>9, <1>13, <1>14

\* maybe_enqueue_skipped_value
LEMMA MaybeEnqueueFacts ==
    ASSUME NEW i, ItemOK(i), NEW now1, NEW j, j = MaybeEnqueueSkipped(i, now1)
    PROVE  /\ ItemOK(j) /\ j.kind = i.kind /\ j.mode = i.mode
           /\ i.skipped = NoValue => j.skipped = NoValue
<1>1. CASE i.skipped = NoValue \/ i.skipped.ts > now1
  BY <1>1 DEF MaybeEnqueueSkipped
<1>2. CASE ~(i.skipped = NoValue \/ i.skipped.ts > now1)
  <2>1. PICK t : Takes(i, t)
    BY DEF Takes
  <2>2. CoreOK(i) /\ DueOK(i) /\ LatestOK(i)
    BY DEF ItemOK, CoreOK
  <2>3. /\ CoreOK(t) /\ Untouched(i, t) /\ ~t.skippedBefore /\ t.skipped = NoValue
        /\ t.queue = i.queue /\ t.last = i.last /\ SignalKept(i, t)
    BY <2>1, <2>2, TakeFacts
  <2>4. CASE i.mode = "Disabled"
    <3>1. j = [t EXCEPT !.actual = -1]
      BY <1>2, <2>1, <2>4 DEF MaybeEnqueueSkipped, Takes
    <3>2. t \in Item
      BY <2>3 DEF CoreOK
    <3>3. WithHistory(t, -1, t.stale, j) /\ t.stale \in BOOLEAN
      BY <3>1, <3>2, ZenonT(60) DEF WithHistory, Item
    <3>4. PICK a, b : a = -1 /\ b = t.stale
      OBVIOUS
    <3>5. a \in {-1, 0} \cup Values /\ b \in BOOLEAN /\ WithHistory(t, a, b, j)
      BY <3>3, <3>4
    <3>6. /\ CoreOK(j) /\ j.actual = a /\ j.kind = t.kind /\ j.mode = t.mode
          /\ j.queue = t.queue /\ j.skipped = t.skipped
          /\ j.semantics = t.semantics /\ j.semanticsDue = t.semanticsDue
      BY <2>3, <3>5, WithHistoryFacts
    <3>7. DueOK(j)
      BY <2>2, <2>3, <3>6 DEF DueOK, SignalKept, Untouched
    <3>8. LatestOK(j)
      BY <3>4, <3>6 DEF LatestOK
    <3> QED
      BY <1>2, <2>3, <3>6, <3>7, <3>8 DEF ItemOK, CoreOK, Untouched
  <2>5. CASE i.mode # "Disabled"
    <3>1. PICK r : r = AcceptHeldBack(t, i.skipped, i.skippedBefore, TRUE)
      OBVIOUS
    <3>2. j = r.item
      BY <1>2, <2>1, <2>5, <3>1 DEF MaybeEnqueueSkipped, Takes
    <3>3. i.skipped # NoValue /\ i.skipped \in Value0 /\ i.skippedBefore \in BOOLEAN /\ IsData(i)
      BY <1>2, <2>2 DEF CoreOK, Item, HeldBackOK
    <3>4. t.gen > 0 /\ (~i.skippedBefore \/ Signals(t.queue)) => After(i.skipped)
      BY <2>2, <2>3, <3>3 DEF CoreOK, BitsOK, Untouched
    <3>5. IsData(t)
      BY <2>3, <3>3 DEF IsData, Untouched
    <3>6. Handled(t, i.skipped, r)
      BY <2>3, <3>1, <3>3, <3>4, <3>5, AcceptHeldBackFacts
    <3>7. CoreOK(j) /\ Untouched(t, j) /\ SignalKept(t, j)
      BY <3>2, <3>6 DEF Handled
    <3>8. DueOK(j)
      BY <2>2, <2>3, <3>7 DEF DueOK, SignalKept, Untouched
    <3>9. (IF j.skipped # NoValue THEN j.skipped.val ELSE j.last.val) = i.skipped.val
      BY <2>3, <3>2, <3>5, <3>6 DEF Handled, Filtered, HeldBack, Queued
    <3>10. j.actual = i.actual /\ j.stale = i.stale /\ j.kind = i.kind /\ j.mode = i.mode
      BY <2>3, <3>7 DEF Untouched
    <3>11. LatestOK(j)
      BY <2>2, <3>3, <3>9, <3>10 DEF LatestOK, IsData
    <3> QED
      BY <1>2, <3>7, <3>8, <3>10, <3>11 DEF ItemOK, CoreOK
  <2> QED
    BY <2>4, <2>5
<1> QED
  BY <1>1, <1>2

-----------------------------------------------------------------------------
(***************************************************************************)
(* The other operations of an item.                                        *)
(***************************************************************************)

\* notify_eu_range_changed
LEMMA EuRangeFacts ==
    ASSUME NEW i, ItemOK(i), NEW j, j = NotifyEuRangeChanged(i)
    PROVE  ItemOK(j) /\ j.kind = i.kind /\ Quietly(i, j)
<1>1. CASE ~IsData(i)
  BY <1>1 DEF NotifyEuRangeChanged, Quietly
<1>2. CASE IsData(i)
  <2>1. PICK b \in BOOLEAN : b = (i.skippedBefore \/ i.skipped # NoValue)
    BY DEF ItemOK, Item
  <2>2. i \in Item /\ i.gen \in Nat
    BY DEF ItemOK, Item
  <2>0. PICK g \in Nat : g = i.gen + 1
    BY <2>2
  <2>3. j = [i EXCEPT !.skippedBefore = b, !.semantics = TRUE, !.semanticsDue = TRUE,
                      !.gen = g]
    BY <1>2, <2>0, <2>1 DEF NotifyEuRangeChanged
  <2>4. /\ j \in Item /\ j.kind = i.kind /\ j.mode = i.mode /\ j.queue = i.queue
        /\ j.overflowEvent = i.overflowEvent /\ j.queueSize = i.queueSize /\ j.lost = i.lost
        /\ j.last = i.last /\ j.skipped = i.skipped /\ j.actual = i.actual /\ j.stale = i.stale
        /\ j.semantics /\ j.semanticsDue /\ j.gen = g /\ (j.skippedBefore <=> b)
    <3>1. PICK s \in BOOLEAN : s = TRUE
      OBVIOUS
    <3>2. PICK k : k = [i EXCEPT !.skippedBefore = b, !.semantics = s, !.semanticsDue = s, !.gen = g]
      OBVIOUS
    <3>3. k = j
      BY <2>3, <3>1, <3>2
    <3>4. /\ k \in Item /\ k.kind = i.kind /\ k.mode = i.mode /\ k.queue = i.queue
          /\ k.overflowEvent = i.overflowEvent /\ k.queueSize = i.queueSize /\ k.lost = i.lost
          /\ k.last = i.last /\ k.skipped = i.skipped /\ k.actual = i.actual /\ k.stale = i.stale
          /\ k.semantics = s /\ k.semanticsDue = s /\ k.gen = g /\ k.skippedBefore = b
      BY <2>2, <3>2, ZenonT(60) DEF Item
    <3> QED
      BY <3>1, <3>3, <3>4
  <2>5. HeldBackOK(j)
    BY <1>2, <2>1, <2>4 DEF ItemOK, HeldBackOK, IsData
  <2>6. LossOK(j)
    BY <1>2, <2>4 DEF ItemOK, LossOK, IsData
  <2>7. DueOK(j)
    BY <2>4 DEF DueOK
  <2>8. BitsOK(j)
    <3>1. j.gen > 0
      BY <2>0, <2>2, <2>4
    <3>2. j.skipped # NoValue => j.skippedBefore
      BY <2>1, <2>4
    <3> QED
      BY <2>4, <3>1, <3>2 DEF ItemOK, BitsOK
  <2>9. LatestOK(j)
    BY <1>2, <2>4 DEF ItemOK, LatestOK, IsData
  <2> QED
    BY <2>4, <2>5, <2>6, <2>7, <2>8, <2>9
       DEF ItemOK, Quietly, Pending, IsReporting, HasNotifications
<1> QED
  BY <1>1, <1>2

\* notify_event
LEMMA NotifyEventFacts ==
    ASSUME NEW i, ItemOK(i), NEW r, r = NotifyEvent(i)
    PROVE  /\ ItemOK(r.item) /\ r.item.kind = i.kind /\ r.announced \in BOOLEAN
           /\ ~r.announced => Quietly(i, r.item)
<1>1. CASE i.mode = "Disabled" \/ IsData(i)
  <2>1. r = [item |-> i, announced |-> FALSE]
    BY <1>1 DEF NotifyEvent
  <2>2. r.item = i /\ r.announced = FALSE
    BY <2>1
  <2> QED
    BY <2>2 DEF Quietly
<1>2. CASE ~(i.mode = "Disabled" \/ IsData(i))
  <2>1. i \in Item /\ i.overflowEvent \in BOOLEAN
    BY DEF ItemOK, Item
  <2>2. PICK o \in BOOLEAN : o = (i.overflowEvent \/ (Len(i.queue) >= i.queueSize /\ i.queueSize > 1))
    BY <2>1
  <2>3. PICK m : m = [i EXCEPT !.overflowEvent = o]
    OBVIOUS
  <2>4. r = [item |-> Enqueue(m, EventNotification), announced |-> TRUE]
    BY <1>2, <2>2, <2>3 DEF NotifyEvent
  <2>5. /\ m \in Item /\ m.kind = i.kind /\ m.queue = i.queue /\ m.queueSize = i.queueSize
        /\ m.overflowEvent = o /\ m.lost = i.lost /\ m.semantics = i.semantics
        /\ m.last = i.last /\ m.skipped = i.skipped /\ m.skippedBefore = i.skippedBefore
        /\ m.semanticsDue = i.semanticsDue
    BY <2>1, <2>3 DEF Item
  <2>6. EventNotification \in Notification /\ ~EventNotification.data /\ ~EventNotification.semantics
    BY ValueFacts DEF EventNotification, Notification
  <2>7. Len(m.queue) <= m.queueSize
    BY <2>5 DEF ItemOK, HeldBackOK
  <2>8. PICK q \in Seq(Notification), s \in BOOLEAN, l \in BOOLEAN :
          Enqueued(m, EventNotification, q, s, l)
            /\ Enqueue(m, EventNotification) = WithQueue(m, q, s, l)
    BY <2>5, <2>6, <2>7, EnqueueFacts
  <2>9. PICK j : j = WithQueue(m, q, s, l)
    OBVIOUS
  <2>10. r.item = j /\ r.announced = TRUE
    BY <2>4, <2>8, <2>9
  <2>11. /\ j \in Item /\ Untouched(m, j) /\ j.queue = q /\ j.semantics = s /\ j.lost = l
         /\ j.last = m.last /\ j.skipped = m.skipped /\ j.skippedBefore = m.skippedBefore
    BY <2>5, <2>9, WithQueueFacts
  <2>12. j.kind = i.kind /\ ~IsData(i) /\ ~IsData(j) /\ j.queueSize = i.queueSize
         /\ j.overflowEvent = o /\ j.semanticsDue = i.semanticsDue
    BY <1>2, <2>5, <2>11 DEF Untouched, IsData
  <2>13. /\ i.skipped = NoValue /\ ~i.semantics /\ ~i.semanticsDue /\ ~Signals(i.queue)
         /\ InOrder(i.queue) /\ ~i.skippedBefore /\ (i.lost => i.overflowEvent)
    BY <2>12 DEF ItemOK, HeldBackOK, LossOK, BitsOK
  <2>14. /\ Len(q) <= i.queueSize /\ ~s /\ ~Signals(q) /\ InOrder(q)
         /\ ~l \/ i.lost \/ (Len(i.queue) = i.queueSize /\ i.queueSize > 1)
    BY <2>5, <2>6, <2>8, <2>13 DEF Enqueued
  <2>15. HeldBackOK(j)
    BY <2>5, <2>11, <2>12, <2>13, <2>14 DEF HeldBackOK
  <2>16. LossOK(j)
    <3>1. i.queue \in Seq(Notification) /\ i.queueSize \in Nat
      BY <2>1 DEF Item
    <3>3. Len(i.queue) = i.queueSize => Len(i.queue) >= i.queueSize
      BY <3>1
    <3>2. l => o
      BY <2>2, <2>13, <2>14, <3>3
    <3> QED
      BY <2>11, <2>12, <3>2 DEF LossOK
  <2>17. DueOK(j) /\ BitsOK(j) /\ LatestOK(j)
    BY <2>5, <2>11, <2>12, <2>13, <2>14 DEF DueOK, BitsOK, LatestOK
  <2> QED
    BY <2>10, <2>11, <2>12, <2>15, <2>16, <2>17 DEF ItemOK
<1> QED
  BY <1>1, <1>2

\* What pop_notification needs of an item to leave it in order: everything but the
\* promises about the queue, which it empties.
Poppable(i) ==
    /\ i \in Item /\ DueOK(i) /\ LatestOK(i)
    /\ i.skipped # NoValue => i.last # NoValue
    /\ i.skippedBefore => i.skipped # NoValue
    /\ ~IsData(i) => i.skipped = NoValue /\ ~i.semantics /\ ~i.semanticsDue
    /\ i.semantics => i.gen > 0
    /\ i.skipped # NoValue /\ i.gen > 0 /\ ~i.skippedBefore => After(i.skipped)

LEMMA EmptyQueue == <<>> \in Seq(Notification)
  OBVIOUS

\* pop_notification until it returns None.
LEMMA PopAllFacts ==
    ASSUME NEW i, Poppable(i), NEW j, j = PopAll(i)
    PROVE  ItemOK(j) /\ j.kind = i.kind /\ j.mode = i.mode /\ j.skipped = i.skipped /\ ~HasNotifications(j)
<1>1. i \in Item /\ i.semanticsDue \in BOOLEAN
  BY DEF Poppable, Item
<1>2. PICK d \in BOOLEAN : d = (i.semanticsDue /\ ~Signals(i.queue))
  BY <1>1
<1>0. PICK f \in BOOLEAN : f = FALSE
  OBVIOUS
<1>3. PICK q \in Seq(Notification) : q = <<>>
  BY EmptyQueue
<1>4. j = [i EXCEPT !.queue = q, !.overflowEvent = f, !.lost = f, !.semanticsDue = d]
  BY <1>0, <1>2, <1>3 DEF PopAll, Signals
<1>12. PICK m : m = [i EXCEPT !.queue = q, !.semanticsDue = d]
  OBVIOUS
<1>13. /\ m \in Item /\ m.kind = i.kind /\ m.mode = i.mode /\ m.queue = q
      /\ m.queueSize = i.queueSize /\ m.last = i.last /\ m.skipped = i.skipped
      /\ m.actual = i.actual /\ m.stale = i.stale /\ m.skippedBefore = i.skippedBefore
      /\ m.semantics = i.semantics /\ m.semanticsDue = d /\ m.gen = i.gen
  BY <1>1, <1>12 DEF Item
<1>14. j = [m EXCEPT !.overflowEvent = f, !.lost = f]
  BY <1>1, <1>4, <1>12 DEF Item
<1>5. /\ j \in Item /\ j.kind = i.kind /\ j.mode = i.mode /\ j.queue = q /\ j.overflowEvent = f
      /\ j.queueSize = i.queueSize /\ j.lost = f /\ j.last = i.last /\ j.skipped = i.skipped
      /\ j.actual = i.actual /\ j.stale = i.stale /\ j.skippedBefore = i.skippedBefore
      /\ j.semantics = i.semantics /\ j.semanticsDue = d /\ j.gen = i.gen
  BY <1>13, <1>14, ZenonT(60) DEF Item
<1>6. Len(q) = 0 /\ DOMAIN q = {} /\ ~Signals(q) /\ OnlyData(q) /\ InOrder(q)
  BY <1>3 DEF Signals, OnlyData, InOrder
<1>7. HeldBackOK(j)
  <2>1. Len(j.queue) <= j.queueSize
    BY <1>1, <1>5, <1>6 DEF Item
  <2> QED
    BY <1>2, <1>5, <1>6, <2>1 DEF Poppable, HeldBackOK, IsData
<1>8. LossOK(j)
  BY <1>0, <1>5, <1>6 DEF LossOK
<1>9. DueOK(j)
  BY <1>2, <1>5 DEF Poppable, DueOK
<1>10. BitsOK(j)
  BY <1>5, <1>6 DEF Poppable, BitsOK
<1>11. LatestOK(j)
  BY <1>5 DEF Poppable, LatestOK, IsData
<1> QED
  BY <1>0, <1>3, <1>5, <1>7, <1>8, <1>9, <1>10, <1>11 DEF ItemOK, HasNotifications

LEMMA ItemPoppable ==
    ASSUME NEW i, ItemOK(i)
    PROVE  Poppable(i)
  BY DEF ItemOK, Poppable, HeldBackOK, BitsOK

\* add_current_value_to_queue
LEMMA AddCurrentFacts ==
    ASSUME NEW i, ItemOK(i), NEW j, j = AddCurrentValue(i)
    PROVE  Poppable(j) /\ j.kind = i.kind /\ j.mode = i.mode /\ j.skipped = i.skipped
<1>1. CASE j = i
  BY <1>1, ItemPoppable
<1>2. CASE j # i
  <2>1. i \in Item /\ i.last \in Value0
    BY DEF ItemOK, Item
  <2>2. PICK n : n = DataNotification(i.last)
    OBVIOUS
  <2>3. n \in Notification /\ ~n.semantics
    BY <2>1, <2>2 DEF DataNotification, Notification
  <2>4. j = Enqueue(i, n)
    BY <1>2, <2>2 DEF AddCurrentValue
  <2>5. PICK q \in Seq(Notification), s \in BOOLEAN, l \in BOOLEAN :
          Enqueued(i, n, q, s, l) /\ Enqueue(i, n) = WithQueue(i, q, s, l)
    <3>1. Len(i.queue) <= i.queueSize
      BY DEF ItemOK, HeldBackOK
    <3> QED
      BY <2>1, <2>3, <3>1, EnqueueFacts
  <2>6. /\ j \in Item /\ Untouched(i, j) /\ j.queue = q /\ j.semantics = s
        /\ j.last = i.last /\ j.skipped = i.skipped /\ j.skippedBefore = i.skippedBefore
    BY <2>1, <2>4, <2>5, WithQueueFacts
  <2>7. /\ i.semantics \/ Signals(i.queue) => s \/ Signals(q)
        /\ s => i.semantics \/ Signals(i.queue)
    BY <2>5 DEF Enqueued
  <2>8. DueOK(j)
    BY <2>6, <2>7 DEF ItemOK, DueOK, Untouched
  <2>9. LatestOK(j)
    BY <2>6 DEF ItemOK, LatestOK, IsData, Untouched
  <2>10. j.semantics => j.gen > 0
    BY <2>6, <2>7 DEF ItemOK, BitsOK, Untouched
  <2>11. ~IsData(j) => j.skipped = NoValue /\ ~j.semantics /\ ~j.semanticsDue
    BY <2>6, <2>7 DEF ItemOK, HeldBackOK, IsData, Untouched
  <2>12. j.skipped # NoValue /\ j.gen > 0 /\ ~j.skippedBefore => After(j.skipped)
    BY <2>6 DEF ItemOK, BitsOK, Untouched
  <2>13. (j.skipped # NoValue => j.last # NoValue) /\ (j.skippedBefore => j.skipped # NoValue)
    BY <2>6 DEF ItemOK, HeldBackOK
  <2> QED
    BY <2>6, <2>8, <2>9, <2>10, <2>11, <2>12, <2>13 DEF Poppable, Untouched
<1> QED
  BY <1>1, <1>2

\* No promise is about the monitoring mode, the links or the flag of new entries.
Restyled(i, m, t, a, j) == j = [i EXCEPT !.mode = m, !.triggered = t, !.anyNew = a]

LEMMA RestyledFacts ==
    ASSUME NEW i, ItemOK(i), NEW m \in Modes, NEW t \in SUBSET Ids, NEW a \in BOOLEAN,
           NEW j, Restyled(i, m, t, a, j)
    PROVE  /\ ItemOK(j) /\ j.kind = i.kind /\ j.mode = m /\ j.skipped = i.skipped
           /\ j.queue = i.queue /\ j.overflowEvent = i.overflowEvent
<1>1. i \in Item
  BY DEF ItemOK
<1>2. /\ j \in Item /\ j.kind = i.kind /\ j.mode = m /\ j.queue = i.queue
      /\ j.overflowEvent = i.overflowEvent /\ j.queueSize = i.queueSize /\ j.lost = i.lost
      /\ j.last = i.last /\ j.skipped = i.skipped /\ j.actual = i.actual /\ j.stale = i.stale
      /\ j.skippedBefore = i.skippedBefore /\ j.semantics = i.semantics
      /\ j.semanticsDue = i.semanticsDue /\ j.gen = i.gen
  BY <1>1 DEF Item, Restyled
<1>3. HeldBackOK(j)
  BY <1>2 DEF ItemOK, HeldBackOK, IsData
<1>4. LossOK(j)
  BY <1>2 DEF ItemOK, LossOK, IsData
<1>5. DueOK(j) /\ BitsOK(j)
  BY <1>2 DEF ItemOK, DueOK, BitsOK
<1>6. LatestOK(j)
  BY <1>2 DEF ItemOK, LatestOK, IsData
<1> QED
  BY <1>2, <1>3, <1>4, <1>5, <1>6 DEF ItemOK

\* Part of a queue keeps the order of its bits.
Part(q, off, r) ==
    /\ off \in Nat /\ r \in Seq(Notification)
    /\ \A k \in DOMAIN r : k + off \in DOMAIN q /\ r[k] = q[k + off]

LEMMA PartFacts ==
    ASSUME NEW q \in Seq(Notification), NEW off, NEW r, Part(q, off, r)
    PROVE  /\ Signals(r) => Signals(q)
           /\ OnlyData(q) => OnlyData(r)
           /\ InOrder(q) => InOrder(r)
<1>1. off \in Nat /\ r \in Seq(Notification) /\ DOMAIN r \subseteq Nat
      /\ \A k \in DOMAIN r : k + off \in DOMAIN q /\ r[k] = q[k + off]
  BY DEF Part
<1>2. (Signals(r) => Signals(q)) /\ (OnlyData(q) => OnlyData(r))
  BY <1>1 DEF Signals, OnlyData
<1>3. \A k, m \in DOMAIN r : k <= m => k + off <= m + off
  BY <1>1
<1>4. InOrder(q) => InOrder(r)
  BY <1>1, <1>3 DEF InOrder
<1> QED
  BY <1>2, <1>4

LEMMA SliceFacts ==
    ASSUME NEW q \in Seq(Notification), NEW size \in Nat \ {0}, NEW off \in Nat,
           off + size <= Len(q), NEW r, r = SubSeq(q, off + 1, off + size)
    PROVE  r \in Seq(Notification) /\ Len(r) = size /\ Part(q, off, r)
<1>1. Len(q) \in Nat /\ DOMAIN q = 1..Len(q) /\ \A k \in 1..Len(q) : q[k] \in Notification
  OBVIOUS
<1>2. \A k \in 1..size : k + off \in 1..Len(q)
  BY <1>1
<1>3. Len(r) = size /\ DOMAIN r = 1..size /\ \A k \in 1..size : r[k] = q[k + off]
  <2>1. PICK a, b : a = off + 1 /\ b = off + size
    OBVIOUS
  <2>2. a \in 1..Len(q)+1 /\ b \in a-1..Len(q) /\ b - a + 1 = size
    BY <1>1, <2>1
  <2>3. r = SubSeq(q, a, b)
    BY <2>1
  <2>4. Len(r) = b - a + 1 /\ \A k \in 1..b - a + 1 : r[k] = q[a + k - 1]
    BY <2>2, <2>3, SubSeqProperties
  <2>5. \A k \in 1..size : a + k - 1 = k + off
    BY <2>1
  <2>6. r \in Seq(Notification)
    BY <2>2, <2>3, SubSeqProperties
  <2> QED
    BY <2>2, <2>4, <2>5, <2>6
<1>4. r \in Seq(Notification)
  <2>1. r = [k \in 1..size |-> q[k + off]]
    BY <1>3
  <2> QED
    BY <1>1, <1>2, <2>1
<1> QED
  BY <1>1, <1>2, <1>3, <1>4 DEF Part

\* What modify leaves of a queue.
LEMMA CutFacts ==
    ASSUME NEW q \in Seq(Notification), NEW size \in Nat \ {0}, NEW old \in BOOLEAN,
           NEW r, r = CASE ~(Len(q) > size) -> q
                        [] Len(q) > size /\ old -> SubSeq(q, Len(q) - size + 1, Len(q))
                        [] OTHER -> SubSeq(q, 1, size)
    PROVE  /\ r \in Seq(Notification) /\ Len(r) <= size /\ (q = <<>> => r = <<>>)
           /\ ~(Len(q) > size) => r = q
           /\ \E off : Part(q, off, r)
<1>1. Len(q) \in Nat /\ DOMAIN q = 1..Len(q) /\ \A k \in 1..Len(q) : q[k] \in Notification
  OBVIOUS
<1>2. CASE ~(Len(q) > size)
  <2>1. r = q
    BY <1>2
  <2>2. \A k \in DOMAIN q : k + 0 \in DOMAIN q /\ q[k] = q[k + 0]
    BY <1>1
  <2>3. Part(q, 0, q)
    BY <2>2 DEF Part
  <2> QED
    BY <1>1, <1>2, <2>1, <2>3
<1>4. CASE Len(q) > size
  <2>1. q # <<>>
    BY <1>1, <1>4
  <2>2. PICK off \in Nat : off + size <= Len(q) /\ r = SubSeq(q, off + 1, off + size)
    <3>1. CASE old
      <4>1. PICK off \in Nat : off = Len(q) - size
        BY <1>1, <1>4
      <4>2. off + size = Len(q)
        BY <1>1, <4>1
      <4>3. r = SubSeq(q, off + 1, off + size)
        BY <1>4, <3>1, <4>1, <4>2
      <4>4. off + size <= Len(q)
        BY <1>1, <4>2
      <4> QED
        BY <4>3, <4>4, Zenon
    <3>2. CASE ~old
      <4>3. r = SubSeq(q, 1, size)
        BY <1>4, <3>2
      <4>4. 0 + 1 = 1 /\ 0 + size = size
        OBVIOUS
      <4>1. r = SubSeq(q, 0 + 1, 0 + size)
        BY <4>3, <4>4
      <4>2. 0 + size <= Len(q)
        BY <1>1, <1>4
      <4> QED
        BY <4>1, <4>2
    <3> QED
      BY <3>1, <3>2
  <2>3. r \in Seq(Notification) /\ Len(r) = size /\ Part(q, off, r)
    BY <2>2, SliceFacts
  <2> QED
    BY <1>4, <2>1, <2>3
<1> QED
  BY <1>2, <1>4

Setting == [mode : Modes, interval : Nat \cup {Subscription},
            queueSize : Nat \ {0}, discardOldest : BOOLEAN]

\* modify
LEMMA ModifyFacts ==
    ASSUME NEW i, ItemOK(i), NEW set \in Setting, NEW j, j = Modify(i, set)
    PROVE  ItemOK(j) /\ j.kind = i.kind /\ Quietly(i, j)
<1>1. /\ i \in Item /\ i.queue \in Seq(Notification) /\ i.lost \in BOOLEAN
      /\ i.semanticsDue \in BOOLEAN
  BY DEF ItemOK, Item
<1>2. /\ set.interval \in Nat \cup {Subscription} /\ set.queueSize \in Nat \ {0}
      /\ set.discardOldest \in BOOLEAN
  BY DEF Setting
<1>3. PICK q : q = CASE ~(Len(i.queue) > set.queueSize) -> i.queue
                     [] Len(i.queue) > set.queueSize /\ set.discardOldest ->
                          SubSeq(i.queue, Len(i.queue) - set.queueSize + 1, Len(i.queue))
                     [] OTHER -> SubSeq(i.queue, 1, set.queueSize)
  OBVIOUS
<1>4. /\ q \in Seq(Notification) /\ Len(q) <= set.queueSize /\ (i.queue = <<>> => q = <<>>)
      /\ ~(Len(i.queue) > set.queueSize) => q = i.queue
      /\ \E off : Part(i.queue, off, q)
  <2>1. PICK p, size, old : p = i.queue /\ size = set.queueSize /\ old = set.discardOldest
    OBVIOUS
  <2>2. p \in Seq(Notification) /\ size \in Nat \ {0} /\ old \in BOOLEAN
    BY <1>1, <1>2, <2>1
  <2>3. q = CASE ~(Len(p) > size) -> p
              [] Len(p) > size /\ old -> SubSeq(p, Len(p) - size + 1, Len(p))
              [] OTHER -> SubSeq(p, 1, size)
    BY <1>3, <2>1
  <2>4. /\ q \in Seq(Notification) /\ Len(q) <= size /\ (p = <<>> => q = <<>>)
        /\ ~(Len(p) > size) => q = p
        /\ \E off : Part(p, off, q)
    BY <2>2, <2>3, CutFacts, ZenonT(60)
  <2> QED
    BY <2>1, <2>4
<1>5. (Signals(q) => Signals(i.queue)) /\ (OnlyData(i.queue) => OnlyData(q))
      /\ (InOrder(i.queue) => InOrder(q))
  BY <1>1, <1>4, PartFacts
<1>6. PICK l \in BOOLEAN :
        l = (i.lost /\ (~(Len(i.queue) > set.queueSize) \/ i.overflowEvent))
  BY <1>1
<1>7. PICK d \in BOOLEAN :
        d = (i.semanticsDue /\ (~(Len(i.queue) > set.queueSize) \/ i.semantics))
  BY <1>1
<1>8. j = [i EXCEPT !.interval = set.interval, !.queueSize = set.queueSize,
                    !.discardOldest = set.discardOldest, !.queue = q, !.lost = l,
                    !.semanticsDue = d]
  BY <1>3, <1>6, <1>7, Zenon DEF Modify
<1>9. PICK m : m = [i EXCEPT !.interval = set.interval, !.queueSize = set.queueSize,
                             !.discardOldest = set.discardOldest]
  OBVIOUS
<1>10. /\ m \in Item /\ m.kind = i.kind /\ m.mode = i.mode
       /\ m.overflowEvent = i.overflowEvent /\ m.queueSize = set.queueSize
       /\ m.last = i.last /\ m.skipped = i.skipped /\ m.actual = i.actual /\ m.stale = i.stale
       /\ m.skippedBefore = i.skippedBefore /\ m.semantics = i.semantics /\ m.gen = i.gen
  BY <1>1, <1>2, <1>9 DEF Item
<1>11. j = [m EXCEPT !.queue = q, !.lost = l, !.semanticsDue = d]
  BY <1>1, <1>8, <1>9 DEF Item
<1>12. /\ j \in Item /\ j.kind = i.kind /\ j.mode = i.mode /\ j.queue = q
       /\ j.overflowEvent = i.overflowEvent /\ j.queueSize = set.queueSize /\ j.lost = l
       /\ j.last = i.last /\ j.skipped = i.skipped /\ j.actual = i.actual /\ j.stale = i.stale
       /\ j.skippedBefore = i.skippedBefore /\ j.semantics = i.semantics
       /\ j.semanticsDue = d /\ j.gen = i.gen
  BY <1>4, <1>10, <1>11, ZenonT(60) DEF Item
<1>13. HeldBackOK(j)
  BY <1>4, <1>5, <1>7, <1>12 DEF ItemOK, HeldBackOK, IsData
<1>14. LossOK(j)
  <2>1. CASE IsData(i)
    <3>1. l => i.lost /\ q = i.queue
      BY <1>4, <1>6, <2>1 DEF ItemOK, LossOK
    <3> QED
      BY <1>5, <1>12, <2>1, <3>1 DEF ItemOK, LossOK, IsData
  <2>2. CASE ~IsData(i)
    BY <1>6, <1>12, <2>2 DEF ItemOK, LossOK, IsData
  <2> QED
    BY <2>1, <2>2
<1>15. DueOK(j)
  BY <1>4, <1>7, <1>12 DEF ItemOK, DueOK
<1>16. BitsOK(j)
  BY <1>5, <1>12 DEF ItemOK, BitsOK
<1>17. LatestOK(j)
  BY <1>12 DEF ItemOK, LatestOK, IsData
<1> QED
  BY <1>4, <1>12, <1>13, <1>14, <1>15, <1>16, <1>17
     DEF ItemOK, Quietly, Pending, IsReporting, HasNotifications

\* MonitoredItem::new
LEMMA NewItemFacts ==
    ASSUME NEW kind \in {"data", "event"}, NEW set \in Setting, NEW i, i = NewItem(kind, set)
    PROVE  /\ ItemOK(i) /\ ~i.skippedBefore /\ i.queue = <<>> /\ i.kind = kind
           /\ ~i.semantics /\ i.last = NoValue /\ i.skipped = NoValue /\ ~i.semanticsDue
<1>1. /\ set.interval \in Nat \cup {Subscription} /\ set.queueSize \in Nat \ {0}
      /\ set.discardOldest \in BOOLEAN /\ set.mode \in Modes
  BY DEF Setting
<1>2. NoValue \in Value0
  BY ValueFacts
<1>3. /\ i.queue = <<>> /\ ~i.skippedBefore /\ ~i.semantics /\ i.last = NoValue
      /\ i.skipped = NoValue /\ ~i.semanticsDue /\ ~i.lost /\ ~i.overflowEvent
      /\ i.queueSize = set.queueSize /\ i.actual = -1 /\ i.kind = kind
  BY DEF NewItem
<1>4. i \in Item
  BY <1>1, <1>2, EmptyQueue DEF NewItem, Item
<1>5. Len(i.queue) = 0 /\ DOMAIN i.queue = {}
  BY <1>3
<1>6. ~Signals(i.queue) /\ OnlyData(i.queue) /\ InOrder(i.queue)
  BY <1>5 DEF Signals, OnlyData, InOrder
<1>7. Len(i.queue) <= i.queueSize
  BY <1>1, <1>3, <1>5
<1>8. HeldBackOK(i) /\ LossOK(i) /\ DueOK(i) /\ BitsOK(i)
  BY <1>3, <1>6, <1>7 DEF HeldBackOK, LossOK, DueOK, BitsOK
<1>9. LatestOK(i)
  BY <1>3 DEF LatestOK
<1> QED
  BY <1>3, <1>4, <1>8, <1>9 DEF ItemOK

LEMMA NewFacts ==
    ASSUME NEW kind \in {"data", "event"}, NEW set \in Setting, NEW v \in Value0, v # NoValue,
           NEW j, j = New(kind, set, v)
    PROVE  ItemOK(j) /\ j.kind = kind
<1>1. PICK i : i = NewItem(kind, set)
  OBVIOUS
<1>2. /\ ItemOK(i) /\ ~i.skippedBefore /\ i.queue = <<>> /\ i.kind = kind
      /\ ~i.semantics /\ i.last = NoValue /\ i.skipped = NoValue /\ ~i.semanticsDue
  BY <1>1, NewItemFacts
<1>3. CASE set.mode = "Disabled"
  BY <1>1, <1>2, <1>3 DEF New
<1>4. CASE set.mode # "Disabled"
  <2>1. PICK r : r = Accept(i, v, TRUE)
    OBVIOUS
  <2>2. ~Signals(i.queue) /\ CoreOK(i)
    BY <1>2 DEF ItemOK, CoreOK, Signals
  <2>3. Handled(i, v, r)
    BY <1>2, <2>1, <2>2, AcceptFacts
  <2>4. PICK h, a, b : h = r.item /\ a = v.val /\ b = r.item.stale
    OBVIOUS
  <2>5. CoreOK(h) /\ Untouched(i, h) /\ SignalKept(i, h)
    BY <2>3, <2>4 DEF Handled
  <2>6. h \in Item /\ b \in BOOLEAN /\ a \in {-1, 0} \cup Values
    BY <2>4, <2>5, ValueFacts DEF CoreOK, Item
  <2>7. j = [h EXCEPT !.actual = a]
    BY <1>1, <1>4, <2>1, <2>4 DEF New
  <2>8. WithHistory(h, a, b, j)
    BY <2>4, <2>6, <2>7 DEF WithHistory, Item
  <2>9. /\ CoreOK(j) /\ j.actual = a /\ j.kind = h.kind /\ j.last = h.last /\ j.skipped = h.skipped
        /\ j.semanticsDue = h.semanticsDue
    BY <2>5, <2>6, <2>8, WithHistoryFacts
  <2>10. DueOK(j)
    BY <1>2, <2>5, <2>9 DEF DueOK, Untouched
  <2>11. LatestOK(j)
    BY <1>2, <2>3, <2>4, <2>9 DEF LatestOK, Handled, Filtered, HeldBack, Queued
  <2> QED
    BY <1>2, <2>5, <2>9, <2>10, <2>11 DEF ItemOK, CoreOK, Untouched
<1> QED
  BY <1>3, <1>4

-----------------------------------------------------------------------------
(***************************************************************************)
(* The actions.                                                            *)
(***************************************************************************)

LEMMA SampleFacts ==
    ASSUME NEW val \in {0} \cup Values, NEW ts \in Nat, NEW gen \in Nat
    PROVE  Sample(val, ts, gen) \in Value0 /\ Sample(val, ts, gen) # NoValue
           /\ Sample(val, ts, gen).gen = gen
<1>1. PICK v : v = Sample(val, ts, gen)
  OBVIOUS
<1>2. v \in [val : {0} \cup Values, ts : Nat, gen : Nat, forgotten : BOOLEAN] /\ v.gen = gen /\ v.val = val
  BY <1>1 DEF Sample
<1>3. val \in Nat /\ NoValue.val = -1
  <2>1. Values \subseteq Nat
    BY ConstantsOK
  <2>2. NoValue.val = -1
    BY ValueFacts
  <2> QED
    BY <2>1, <2>2
<1>4. v # NoValue
  BY <1>2, <1>3
<1> QED
  BY <1>1, <1>2, <1>4 DEF Value0

LEMMA TypeFacts ==
    ASSUME IInv
    PROVE  /\ Live \subseteq created /\ notified \subseteq created /\ quiet \subseteq Live
           /\ created \subseteq Ids /\ resend \in BOOLEAN /\ now \in Nat
           /\ items = [id \in Live |-> items[id]]
           /\ \A id \in Live : /\ ItemOK(items[id]) /\ (IsData(items[id]) <=> id \notin EventIds)
                               /\ Pending(items[id]) => id \in notified \cup quiet
<1>1. TypeOK /\ PendingAnnounced /\ \A id \in Live : ItemOK(items[id])
  BY DEF IInv
<1>2. /\ Live \subseteq created /\ notified \subseteq created /\ quiet \subseteq Live
      /\ created \subseteq Ids /\ resend \in BOOLEAN /\ now \in Nat
      /\ items \in [Live -> Item]
      /\ \A id \in Live : IsData(items[id]) <=> id \notin EventIds
  BY <1>1, Zenon DEF TypeOK
<1>3. items = [id \in Live |-> items[id]]
  BY <1>2
<1>4. \A id \in Live : Pending(items[id]) => id \in notified \cup quiet
  BY <1>1 DEF PendingAnnounced
<1> QED
  BY <1>1, <1>2, <1>3, <1>4

\* What is left to show of a step.
LEMMA Assembled ==
    ASSUME Live' \subseteq created', notified' \subseteq created', quiet' \subseteq Live',
           created' \subseteq Ids, resend' \in BOOLEAN, now' \in Nat,
           items' = [id \in Live' |-> items'[id]],
           \A id \in Live' : /\ ItemOK(items'[id]) /\ (IsData(items'[id]) <=> id \notin EventIds)
                             /\ Pending(items'[id]) => id \in notified' \cup quiet'
    PROVE  IInv'
<1>1. \A id \in Live' : /\ items'[id] \in Item
                        /\ Len(items'[id].queue) <= items'[id].queueSize
                        /\ items'[id].skipped # NoValue => items'[id].last # NoValue
                        /\ items'[id].skippedBefore => items'[id].skipped # NoValue
  BY DEF ItemOK, HeldBackOK
<1>2. items' \in [Live' -> Item]
  BY <1>1
<1>3. TypeOK'
  BY <1>1, <1>2 DEF TypeOK
<1>4. PendingAnnounced'
  BY DEF PendingAnnounced
<1> QED
  BY <1>3, <1>4 DEF IInv

\* One item changes.
LEMMA OneItem ==
    ASSUME IInv, NEW id \in Live, NEW j, ItemOK(j), j.kind = items[id].kind,
           items' = [items EXCEPT ![id] = j],
           notified \subseteq notified', notified' \subseteq notified \cup {id},
           quiet \ {id} \subseteq quiet', quiet' \subseteq quiet \cup {id},
           Pending(j) => id \in notified' \cup quiet',
           resend' \in BOOLEAN, now' = now, created' = created
    PROVE  IInv'
<1>1. /\ Live \subseteq created /\ notified \subseteq created /\ quiet \subseteq Live
      /\ created \subseteq Ids /\ resend \in BOOLEAN /\ now \in Nat
      /\ items = [k \in Live |-> items[k]]
      /\ \A k \in Live : /\ ItemOK(items[k]) /\ (IsData(items[k]) <=> k \notin EventIds)
                         /\ Pending(items[k]) => k \in notified \cup quiet
  BY TypeFacts
<1>2. Live' = Live /\ items' = [k \in Live |-> IF k = id THEN j ELSE items[k]]
  BY <1>1 DEF Live
<1>3. \A k \in Live' : /\ ItemOK(items'[k]) /\ (IsData(items'[k]) <=> k \notin EventIds)
                       /\ Pending(items'[k]) => k \in notified' \cup quiet'
  <2> TAKE k \in Live'
  <2>1. CASE k = id
    BY <1>1, <1>2, <2>1 DEF IsData
  <2>2. CASE k # id
    <3>1. items'[k] = items[k] /\ k \in Live
      BY <1>2, <2>2
    <3> QED
      BY <1>1, <2>2, <3>1
  <2> QED
    BY <2>1, <2>2
<1>4. items' = [k \in Live' |-> items'[k]]
  BY <1>2
<1>5. Live' \subseteq created' /\ notified' \subseteq created' /\ quiet' \subseteq Live'
  BY <1>1, <1>2
<1> QED
  BY <1>1, <1>3, <1>4, <1>5, Assembled

\* An item is handed something and its id announced or not.
LEMMA Announced ==
    ASSUME IInv, NEW id \in Live, NEW r, Announce(id, r), ItemOK(r.item),
           r.item.kind = items[id].kind, r.announced \in BOOLEAN,
           ~r.announced => Quietly(items[id], r.item),
           UNCHANGED <<resend, now, created>>
    PROVE  IInv'
<1>1. PICK j : j = r.item
  OBVIOUS
<1>2. /\ items' = [items EXCEPT ![id] = j]
      /\ notified' = IF r.announced THEN notified \cup {id} ELSE notified
      /\ quiet' = IF r.announced THEN quiet \ {id} ELSE quiet
  BY <1>1 DEF Announce
<1>3. /\ notified \subseteq notified' /\ notified' \subseteq notified \cup {id}
      /\ quiet \ {id} \subseteq quiet' /\ quiet' \subseteq quiet \cup {id}
  BY <1>2
<1>4. Pending(j) => id \in notified' \cup quiet'
  <2>1. Pending(items[id]) => id \in notified \cup quiet
    BY TypeFacts
  <2> QED
    BY <1>1, <1>2, <2>1 DEF Quietly
<1>5. resend' \in BOOLEAN
  BY TypeFacts
<1>6. ItemOK(j) /\ j.kind = items[id].kind
  BY <1>1
<1> QED
  BY <1>2, <1>3, <1>4, <1>5, <1>6, OneItem

LEMMA ValueStep ==
    ASSUME IInv, NEW id \in Ids, NEW val \in Values, NEW ts \in Times, Value(id, val, ts)
    PROVE  IInv'
<1>1. id \in Live /\ id \notin EventIds
  BY DEF Value
<1>2. PICK i : i = items[id]
  OBVIOUS
<1>3. ItemOK(i) /\ IsData(i) /\ now \in Nat
  BY <1>1, <1>2, TypeFacts
<1>4. PICK v : v = Sample(val, ts, i.gen)
  OBVIOUS
<1>5. v \in Value0 /\ v # NoValue /\ v.gen = i.gen
  <2>1. i.gen \in Nat
    BY <1>3 DEF ItemOK, Item
  <2>2. ts \in Nat
    <3>1. Lag \in Nat
      BY ConstantsOK
    <3> QED
      BY <1>3, <3>1 DEF Times
  <2> QED
    BY <1>4, <2>1, <2>2, SampleFacts
<1>6. PICK r : r = NotifyDataValue(i, v, now)
  OBVIOUS
<1>7. Announce(id, r) /\ UNCHANGED <<resend, now, created>>
  BY <1>2, <1>4, <1>6 DEF Value
<1>8. ItemOK(r.item) /\ r.item.kind = i.kind /\ r.announced \in BOOLEAN
      /\ (~r.announced => Quietly(i, r.item))
  <2>1. CASE i.mode = "Disabled"
    <3>1. r = [item |-> i, announced |-> FALSE]
      BY <1>6, <2>1 DEF NotifyDataValue
    <3>2. r.item = i /\ r.announced = FALSE
      BY <3>1
    <3> QED
      BY <1>3, <3>2 DEF Quietly
  <2>2. CASE i.mode # "Disabled"
    <3>1. r = NotifyEnabled(i, v, now)
      BY <1>6, <2>2 DEF NotifyDataValue
    <3> QED
      BY <1>3, <1>5, <3>1, NotifyEnabledFacts
  <2> QED
    BY <2>1, <2>2
<1> QED
  BY <1>1, <1>2, <1>7, <1>8, Announced

LEMMA EventStep ==
    ASSUME IInv, NEW id \in Ids, Event(id)
    PROVE  IInv'
<1>1. id \in Live
  BY DEF Event
<1>2. PICK i : i = items[id]
  OBVIOUS
<1>3. ItemOK(i)
  BY <1>1, <1>2, TypeFacts
<1>4. PICK r : r = NotifyEvent(i)
  OBVIOUS
<1>5. Announce(id, r) /\ UNCHANGED <<resend, now, created>>
  BY <1>2, <1>4 DEF Event
<1>6. ItemOK(r.item) /\ r.item.kind = i.kind /\ r.announced \in BOOLEAN
      /\ (~r.announced => Quietly(i, r.item))
  BY <1>3, <1>4, NotifyEventFacts
<1> QED
  BY <1>1, <1>2, <1>5, <1>6, Announced

LEMMA EuRangeStep ==
    ASSUME IInv, EuRangeChanged
    PROVE  IInv'
<1>1. /\ items' = [id \in Live |-> NotifyEuRangeChanged(items[id])]
      /\ UNCHANGED <<notified, resend, now, created, quiet>>
  BY DEF EuRangeChanged
<1>2. Live' = Live
  BY <1>1 DEF Live
<1>3. /\ Live \subseteq created /\ notified \subseteq created /\ quiet \subseteq Live
      /\ created \subseteq Ids /\ resend \in BOOLEAN /\ now \in Nat
      /\ \A k \in Live : /\ ItemOK(items[k]) /\ (IsData(items[k]) <=> k \notin EventIds)
                         /\ Pending(items[k]) => k \in notified \cup quiet
  BY TypeFacts
<1>4. \A k \in Live : ItemOK(items'[k]) /\ items'[k].kind = items[k].kind /\ Quietly(items[k], items'[k])
  <2> TAKE k \in Live
  <2>1. PICK i, j : i = items[k] /\ j = NotifyEuRangeChanged(i)
    OBVIOUS
  <2>2. items'[k] = j
    BY <1>1, <2>1
  <2>3. ItemOK(i)
    BY <1>3, <2>1
  <2>4. ItemOK(j) /\ j.kind = i.kind /\ Quietly(i, j)
    BY <2>1, <2>3, EuRangeFacts
  <2> QED
    BY <2>1, <2>2, <2>4
<1>5. \A k \in Live' : /\ ItemOK(items'[k]) /\ (IsData(items'[k]) <=> k \notin EventIds)
                       /\ Pending(items'[k]) => k \in notified' \cup quiet'
  BY <1>1, <1>2, <1>3, <1>4 DEF IsData, Quietly
<1>6. items' = [k \in Live' |-> items'[k]]
  BY <1>1, <1>2
<1> QED
  BY <1>1, <1>2, <1>3, <1>5, <1>6, Assembled

LEMMA CreateStep ==
    ASSUME IInv, NEW id \in Ids, NEW set \in Settings[id], NEW val \in InitialValues,
           Create(id, set, val)
    PROVE  IInv'
<1>1. PICK kind : kind = IF id \in EventIds THEN "event" ELSE "data"
  OBVIOUS
<1>2. PICK v : v = Sample(val, now, 0)
  OBVIOUS
<1>3. PICK j : j = New(kind, set, v)
  OBVIOUS
<1>4. /\ id \notin created /\ created' = created \cup {id}
      /\ items' = [i \in Live \cup {id} |-> IF i # id THEN items[i] ELSE j]
      /\ notified' = notified \cup {id} /\ quiet' = quiet /\ resend' = resend /\ now' = now
  BY <1>1, <1>2, <1>3 DEF Create
<1>5. /\ Live \subseteq created /\ notified \subseteq created /\ quiet \subseteq Live
      /\ created \subseteq Ids /\ resend \in BOOLEAN /\ now \in Nat
      /\ \A k \in Live : /\ ItemOK(items[k]) /\ (IsData(items[k]) <=> k \notin EventIds)
                         /\ Pending(items[k]) => k \in notified \cup quiet
  BY TypeFacts
<1>6. ItemOK(j) /\ j.kind = kind
  <2>1. set \in Setting
    BY ConstantsOK DEF Setting
  <2>2. val \in {0} \cup Values
    BY ConstantsOK
  <2>3. v \in Value0 /\ v # NoValue
    BY <1>2, <1>5, <2>2, SampleFacts
  <2>4. kind \in {"data", "event"}
    BY <1>1
  <2> QED
    BY <1>3, <2>1, <2>3, <2>4, NewFacts
<1>7. Live' = Live \cup {id}
  BY <1>4 DEF Live
<1>8. \A k \in Live' : /\ ItemOK(items'[k]) /\ (IsData(items'[k]) <=> k \notin EventIds)
                       /\ Pending(items'[k]) => k \in notified' \cup quiet'
  <2> TAKE k \in Live'
  <2>1. CASE k = id
    <3>1. items'[k] = j
      BY <1>4, <1>7, <2>1
    <3>2. IsData(j) <=> id \notin EventIds
      BY <1>1, <1>6 DEF IsData
    <3> QED
      BY <1>4, <1>6, <2>1, <3>1, <3>2
  <2>2. CASE k # id
    <3>1. k \in Live /\ items'[k] = items[k]
      BY <1>4, <1>7, <2>2
    <3> QED
      BY <1>4, <1>5, <3>1
  <2> QED
    BY <2>1, <2>2
<1>9. items' = [k \in Live' |-> items'[k]]
  BY <1>4, <1>7
<1>10. /\ Live' \subseteq created' /\ notified' \subseteq created' /\ quiet' \subseteq Live'
       /\ created' \subseteq Ids /\ resend' \in BOOLEAN /\ now' \in Nat
  BY <1>4, <1>5, <1>7
<1> QED
  BY <1>8, <1>9, <1>10, Assembled

LEMMA DeleteStep ==
    ASSUME IInv, NEW id \in Ids, Delete(id)
    PROVE  IInv'
<1>1. /\ items' = [i \in Live \ {id} |-> items[i]] /\ quiet' = quiet \ {id}
      /\ notified' = notified /\ resend' = resend /\ now' = now /\ created' = created
  BY DEF Delete, Call
<1>2. /\ Live \subseteq created /\ notified \subseteq created /\ quiet \subseteq Live
      /\ created \subseteq Ids /\ resend \in BOOLEAN /\ now \in Nat
      /\ \A k \in Live : /\ ItemOK(items[k]) /\ (IsData(items[k]) <=> k \notin EventIds)
                         /\ Pending(items[k]) => k \in notified \cup quiet
  BY TypeFacts
<1>3. Live' = Live \ {id}
  BY <1>1 DEF Live
<1>4. \A k \in Live' : k \in Live /\ k # id /\ items'[k] = items[k]
  BY <1>1, <1>3
<1>5. \A k \in Live' : /\ ItemOK(items'[k]) /\ (IsData(items'[k]) <=> k \notin EventIds)
                       /\ Pending(items'[k]) => k \in notified' \cup quiet'
  BY <1>1, <1>2, <1>4
<1>6. items' = [k \in Live' |-> items'[k]]
  BY <1>1, <1>3
<1>7. /\ Live' \subseteq created' /\ notified' \subseteq created' /\ quiet' \subseteq Live'
      /\ created' \subseteq Ids /\ resend' \in BOOLEAN /\ now' \in Nat
  BY <1>1, <1>2, <1>3
<1> QED
  BY <1>5, <1>6, <1>7, Assembled

LEMMA ModeStep ==
    ASSUME IInv, NEW id \in Ids, NEW mode \in Modes, SetMonitoringMode(id, mode)
    PROVE  IInv'
<1>1. /\ id \in Live /\ items' = [items EXCEPT ![id].mode = mode]
      /\ quiet' = IF mode = "Reporting" /\ id \notin notified /\ HasNotifications(items[id])
                  THEN quiet \cup {id} ELSE quiet
      /\ notified' = notified /\ resend' = resend /\ now' = now /\ created' = created
  BY DEF SetMonitoringMode, Call
<1>2. PICK i, j : i = items[id] /\ j = [i EXCEPT !.mode = mode]
  OBVIOUS
<1>3. ItemOK(i) /\ (Pending(i) => id \in notified \cup quiet) /\ resend \in BOOLEAN
  BY <1>1, <1>2, TypeFacts
<1>4. i \in Item
  BY <1>3 DEF ItemOK
<1>5. PICK t \in SUBSET Ids, a \in BOOLEAN : t = i.triggered /\ a = i.anyNew
  BY <1>4 DEF Item
<1>6. Restyled(i, mode, t, a, j)
  BY <1>2, <1>4, <1>5 DEF Restyled, Item
<1>7. /\ ItemOK(j) /\ j.kind = i.kind /\ j.mode = mode /\ j.skipped = i.skipped
      /\ j.queue = i.queue /\ j.overflowEvent = i.overflowEvent
  BY <1>3, <1>6, RestyledFacts
<1>8. items' = [items EXCEPT ![id] = j]
  BY <1>1, <1>2
<1>9. Pending(j) => id \in notified' \cup quiet'
  BY <1>1, <1>2, <1>3, <1>7 DEF Pending, IsReporting, HasNotifications
<1>10. /\ notified \subseteq notified' /\ notified' \subseteq notified \cup {id}
       /\ quiet \ {id} \subseteq quiet' /\ quiet' \subseteq quiet \cup {id}
  BY <1>1
<1> QED
  BY <1>1, <1>2, <1>3, <1>7, <1>8, <1>9, <1>10, OneItem

\* An item changes and nothing is announced.
LEMMA QuietStep ==
    ASSUME IInv, NEW id \in Live, NEW j, ItemOK(j), j.kind = items[id].kind,
           Quietly(items[id], j), items' = [items EXCEPT ![id] = j],
           UNCHANGED <<notified, quiet, resend, now, created>>
    PROVE  IInv'
<1>1. Pending(items[id]) => id \in notified \cup quiet
  BY TypeFacts
<1>2. Pending(j) => id \in notified' \cup quiet'
  BY <1>1 DEF Quietly
<1>3. resend' \in BOOLEAN /\ now' = now /\ created' = created /\ notified' = notified /\ quiet' = quiet
  BY TypeFacts
<1>4. /\ notified \subseteq notified' /\ notified' \subseteq notified \cup {id}
      /\ quiet \ {id} \subseteq quiet' /\ quiet' \subseteq quiet \cup {id}
  BY <1>3
<1> QED
  BY <1>2, <1>3, <1>4, OneItem

LEMMA ModifyStep ==
    ASSUME IInv, NEW id \in Ids, NEW set \in Settings[id], ModifyItem(id, set)
    PROVE  IInv'
<1>1. /\ id \in Live /\ items' = [items EXCEPT ![id] = Modify(items[id], set)]
      /\ UNCHANGED <<notified, quiet, resend, now, created>>
  BY DEF ModifyItem, Call
<1>2. PICK i, j : i = items[id] /\ j = Modify(i, set)
  OBVIOUS
<1>3. ItemOK(i)
  BY <1>1, <1>2, TypeFacts
<1>4. set \in Setting
  BY ConstantsOK DEF Setting
<1>5. ItemOK(j) /\ j.kind = i.kind /\ Quietly(i, j)
  BY <1>2, <1>3, <1>4, ModifyFacts
<1>6. items' = [items EXCEPT ![id] = j]
  BY <1>1, <1>2
<1> QED
  BY <1>1, <1>2, <1>5, <1>6, QuietStep

LEMMA LinkStep ==
    ASSUME IInv, NEW id \in Ids, NEW add \in SUBSET Ids, NEW remove \in SUBSET Ids,
           Link(id, add, remove)
    PROVE  IInv'
<1>1. /\ id \in Live
      /\ items' = [items EXCEPT ![id] = SetTriggering(items[id], add \cap Live, remove \cap Live)]
      /\ UNCHANGED <<notified, quiet, resend, now, created>>
  BY DEF Link, Call
<1>2. PICK i, j : i = items[id] /\ j = SetTriggering(i, add \cap Live, remove \cap Live)
  OBVIOUS
<1>3. ItemOK(i)
  BY <1>1, <1>2, TypeFacts
<1>4. i \in Item
  BY <1>3 DEF ItemOK
<1>5. PICK t : t = (i.triggered \ (remove \cap Live)) \cup (add \cap Live)
  OBVIOUS
<1>6. PICK m, a : m = i.mode /\ a = i.anyNew
  OBVIOUS
<1>7. t \in SUBSET Ids /\ m \in Modes /\ a \in BOOLEAN
  BY <1>4, <1>5, <1>6 DEF Item
<1>8. Restyled(i, m, t, a, j)
  BY <1>2, <1>4, <1>5, <1>6 DEF Restyled, SetTriggering, Item
<1>9. /\ ItemOK(j) /\ j.kind = i.kind /\ j.mode = m /\ j.skipped = i.skipped
      /\ j.queue = i.queue /\ j.overflowEvent = i.overflowEvent
  BY <1>3, <1>7, <1>8, RestyledFacts
<1>10. Quietly(i, j)
  BY <1>6, <1>9 DEF Quietly, Pending, IsReporting, HasNotifications
<1>11. items' = [items EXCEPT ![id] = j]
  BY <1>1, <1>2
<1> QED
  BY <1>1, <1>2, <1>9, <1>10, <1>11, QuietStep

\* tick_monitored_item: a reporting item has given up its queue, another item was
\* at most given a value, and nothing is newly held back.
LEMMA TickedFacts ==
    ASSUME IInv, NEW id \in Live, NEW j, j = Ticked(id)
    PROVE  /\ ItemOK(j) /\ j.kind = items[id].kind
           /\ Pending(j) => j.skipped # NoValue /\ items[id].skipped # NoValue
<1>1. PICK i : i = items[id]
  OBVIOUS
<1>2. ItemOK(i)
  BY <1>1, TypeFacts
<1>3. PICK r : r = MaybeEnqueueSkipped(i, now)
  OBVIOUS
<1>4. /\ ItemOK(r) /\ r.kind = i.kind /\ (i.skipped = NoValue => r.skipped = NoValue)
  BY <1>2, <1>3, MaybeEnqueueFacts
<1>5. r \in Item /\ r.anyNew \in BOOLEAN
  BY <1>4 DEF ItemOK, Item
<1>6. PICK a : a = IF IsSampling(r) THEN [r EXCEPT !.anyNew = FALSE] ELSE r
  OBVIOUS
<1>7. ItemOK(a) /\ a.kind = r.kind /\ a.mode = r.mode /\ a.skipped = r.skipped
  <2>1. CASE ~IsSampling(r)
    BY <1>4, <1>6, <2>1
  <2>2. CASE IsSampling(r)
    <3>1. PICK m, t, f : m = r.mode /\ t = r.triggered /\ f = FALSE
      OBVIOUS
    <3>2. m \in Modes /\ t \in SUBSET Ids /\ f \in BOOLEAN
      BY <1>5, <3>1 DEF Item
    <3>3. Restyled(r, m, t, f, a)
      BY <1>5, <1>6, <2>2, <3>1 DEF Restyled, Item
    <3> QED
      BY <1>4, <3>1, <3>2, <3>3, RestyledFacts
  <2> QED
    BY <2>1, <2>2
<1>8. j = IF ~IsReporting(r) THEN a ELSE PopAll(IF resend THEN AddCurrentValue(a) ELSE a)
  BY <1>1, <1>3, <1>6 DEF Ticked, Ripened
<1>9. CASE ~IsReporting(r)
  <2>1. j = a
    BY <1>8, <1>9
  <2> QED
    BY <1>1, <1>4, <1>7, <1>9, <2>1 DEF Pending, IsReporting
<1>10. CASE IsReporting(r)
  <2>1. PICK c : c = IF resend THEN AddCurrentValue(a) ELSE a
    OBVIOUS
  <2>2. Poppable(c) /\ c.kind = a.kind /\ c.skipped = a.skipped
    <3>1. CASE resend
      BY <1>7, <2>1, <3>1, AddCurrentFacts
    <3>2. CASE ~resend
      BY <1>7, <2>1, <3>2, ItemPoppable
    <3> QED
      BY <3>1, <3>2
  <2>3. j = PopAll(c)
    BY <1>8, <1>10, <2>1
  <2>4. ItemOK(j) /\ j.kind = c.kind /\ j.skipped = c.skipped /\ ~HasNotifications(j)
    BY <2>2, <2>3, PopAllFacts
  <2> QED
    BY <1>1, <1>4, <1>7, <2>2, <2>4 DEF Pending
<1> QED
  BY <1>9, <1>10

\* handle_triggers
LEMMA AfterTriggersFacts ==
    ASSUME NEW id, NEW i, ItemOK(i), NEW j, j = AfterTriggers(id, i)
    PROVE  /\ ItemOK(j) /\ j.kind = i.kind /\ j.skipped = i.skipped
           /\ Quietly(i, j)
<1>1. PICK p : p = IF \E t \in Triggers : t[2] = id THEN PopAll(i) ELSE i
  OBVIOUS
<1>2. /\ ItemOK(p) /\ p.kind = i.kind /\ p.skipped = i.skipped /\ p.mode = i.mode
      /\ HasNotifications(p) => HasNotifications(i)
  <2>1. CASE \E t \in Triggers : t[2] = id
    BY <1>1, <2>1, ItemPoppable, PopAllFacts
  <2>2. CASE ~\E t \in Triggers : t[2] = id
    BY <1>1, <2>2
  <2> QED
    BY <2>1, <2>2
<1>3. p \in Item
  BY <1>2 DEF ItemOK
<1>4. PICK m, t, a : /\ m = p.mode /\ a = p.anyNew
                     /\ t = p.triggered \ {x \in p.triggered : <<id, x>> \in Triggers /\ x \notin Live}
  OBVIOUS
<1>5. m \in Modes /\ t \in SUBSET Ids /\ a \in BOOLEAN
  BY <1>3, <1>4 DEF Item
<1>6. j = [p EXCEPT !.triggered = t]
  BY <1>1, <1>4 DEF AfterTriggers
<1>7. Restyled(p, m, t, a, j)
  BY <1>3, <1>4, <1>6 DEF Restyled, Item
<1>8. /\ ItemOK(j) /\ j.kind = p.kind /\ j.mode = m /\ j.skipped = p.skipped
      /\ j.queue = p.queue /\ j.overflowEvent = p.overflowEvent
  BY <1>2, <1>5, <1>7, RestyledFacts
<1>9. Quietly(i, j)
  BY <1>2, <1>4, <1>8 DEF Quietly, Pending, IsReporting, HasNotifications
<1> QED
  BY <1>2, <1>8, <1>9

LEMMA CycleStep ==
    ASSUME IInv, Cycle
    PROVE  IInv'
<1>1. /\ items' = [id \in Live |-> Cycled(id)]
      /\ notified' = IF resend THEN notified ELSE {}
      /\ quiet' = {id \in Live : \/ id \in quiet /\ Pending(items'[id])
                                 \/ id \in notified \ notified' /\ items'[id].skipped # NoValue}
      /\ resend' = FALSE /\ now' = now /\ created' = created
  BY DEF Cycle
<1>2. /\ Live \subseteq created /\ notified \subseteq created /\ quiet \subseteq Live
      /\ created \subseteq Ids /\ resend \in BOOLEAN /\ now \in Nat
      /\ \A k \in Live : /\ ItemOK(items[k]) /\ (IsData(items[k]) <=> k \notin EventIds)
                         /\ Pending(items[k]) => k \in notified \cup quiet
  BY TypeFacts
<1>3. Live' = Live
  BY <1>1 DEF Live
<1>4. \A k \in Live : /\ ItemOK(items'[k]) /\ items'[k].kind = items[k].kind
                      /\ Pending(items'[k]) => k \in notified' \cup quiet'
  <2> TAKE k \in Live
  <2>1. PICK i, j : i = (IF k \in Visited THEN Ticked(k) ELSE items[k]) /\ j = AfterTriggers(k, i)
    OBVIOUS
  <2>2. items'[k] = j
    BY <1>1, <2>1 DEF Cycled
  <2>3. CASE k \in Visited
    <3>1. i = Ticked(k)
      BY <2>1, <2>3
    <3>2. ItemOK(i) /\ i.kind = items[k].kind
          /\ (Pending(i) => i.skipped # NoValue /\ items[k].skipped # NoValue)
      BY <3>1, TickedFacts
    <3>3. ItemOK(j) /\ j.kind = i.kind /\ j.skipped = i.skipped /\ Quietly(i, j)
      BY <2>1, <3>2, AfterTriggersFacts
    <3>4. ASSUME Pending(j) PROVE k \in notified' \cup quiet'
      <4>1. j.skipped # NoValue /\ items[k].skipped # NoValue
        BY <3>2, <3>3, <3>4 DEF Quietly
      <4>2. k \in notified \cup quiet
        BY <1>2, <4>1 DEF Pending
      <4>3. k \in quiet => k \in quiet'
        BY <1>1, <2>2, <3>4
      <4>4. k \in notified => k \in notified' \cup quiet'
        BY <1>1, <2>2, <4>1
      <4> QED
        BY <4>2, <4>3, <4>4
    <3> QED
      BY <2>2, <3>2, <3>3, <3>4
  <2>4. CASE k \notin Visited
    <3>1. i = items[k]
      BY <2>1, <2>4
    <3>2. ItemOK(j) /\ j.kind = i.kind /\ Quietly(i, j)
      BY <1>2, <2>1, <3>1, AfterTriggersFacts
    <3>3. k \notin notified
      BY <2>4 DEF Visited
    <3>4. Pending(j) => k \in quiet'
      BY <1>1, <1>2, <2>2, <3>1, <3>2, <3>3 DEF Quietly
    <3> QED
      BY <2>2, <3>1, <3>2, <3>4
  <2> QED
    BY <2>3, <2>4
<1>5. \A k \in Live' : /\ ItemOK(items'[k]) /\ (IsData(items'[k]) <=> k \notin EventIds)
                       /\ Pending(items'[k]) => k \in notified' \cup quiet'
  BY <1>2, <1>3, <1>4 DEF IsData
<1>6. items' = [k \in Live' |-> items'[k]]
  BY <1>1, <1>3
<1>7. /\ Live' \subseteq created' /\ notified' \subseteq created' /\ quiet' \subseteq Live'
      /\ created' \subseteq Ids /\ resend' \in BOOLEAN /\ now' \in Nat
  BY <1>1, <1>2, <1>3
<1> QED
  BY <1>5, <1>6, <1>7, Assembled

\* The steps that leave the items alone.
LEMMA FrameStep ==
    ASSUME IInv, UNCHANGED <<items, notified, quiet, created>>, resend' \in BOOLEAN, now' \in Nat
    PROVE  IInv'
<1>1. Live' = Live /\ items' = items /\ notified' = notified /\ quiet' = quiet /\ created' = created
  BY DEF Live
<1>2. /\ Live \subseteq created /\ notified \subseteq created /\ quiet \subseteq Live
      /\ created \subseteq Ids /\ items = [k \in Live |-> items[k]]
      /\ \A k \in Live : /\ ItemOK(items[k]) /\ (IsData(items[k]) <=> k \notin EventIds)
                         /\ Pending(items[k]) => k \in notified \cup quiet
  BY TypeFacts
<1> QED
  BY <1>1, <1>2, Assembled

LEMMA NextPreserves ==
    ASSUME IInv, [Next]_vars
    PROVE  IInv'
<1>1. ASSUME NEW id \in Ids, NEW val \in Values, NEW ts \in Times, Value(id, val, ts)
      PROVE  IInv'
  BY <1>1, ValueStep
<1>2. ASSUME NEW id \in Ids, Event(id)
      PROVE  IInv'
  BY <1>2, EventStep
<1>3. CASE EuRangeChanged
  BY <1>3, EuRangeStep
<1>4. ASSUME NEW id \in Ids, NEW set \in Settings[id], NEW val \in InitialValues, Create(id, set, val)
      PROVE  IInv'
  BY <1>4, CreateStep
<1>5. ASSUME NEW id \in Ids, Delete(id)
      PROVE  IInv'
  BY <1>5, DeleteStep
<1>6. ASSUME NEW id \in Ids, NEW mode \in Modes, SetMonitoringMode(id, mode)
      PROVE  IInv'
  BY <1>6, ModeStep
<1>7. ASSUME NEW id \in Ids, NEW set \in Settings[id], ModifyItem(id, set)
      PROVE  IInv'
  BY <1>7, ModifyStep
<1>8. ASSUME NEW id \in Ids, NEW add \in SUBSET Ids, NEW remove \in SUBSET Ids, Link(id, add, remove)
      PROVE  IInv'
  BY <1>8, LinkStep
<1>9. CASE SetResendData
  <2>1. UNCHANGED <<items, notified, quiet, created>> /\ resend' = TRUE /\ now' = now
    BY <1>9 DEF SetResendData, Call
  <2>2. resend' \in BOOLEAN /\ now' \in Nat
    BY <2>1, TypeFacts
  <2> QED
    BY <2>1, <2>2, FrameStep
<1>10. CASE Cycle
  BY <1>10, CycleStep
<1>11. CASE Clock
  <2>1. UNCHANGED <<items, notified, quiet, created>> /\ resend' = resend /\ now' = now + 1
    BY <1>11 DEF Clock
  <2>2. resend' \in BOOLEAN /\ now' \in Nat
    BY <2>1, TypeFacts
  <2> QED
    BY <2>1, <2>2, FrameStep
<1>12. CASE UNCHANGED vars
  <2>1. UNCHANGED <<items, notified, quiet, created>> /\ resend' = resend /\ now' = now
    BY <1>12 DEF vars
  <2>2. resend' \in BOOLEAN /\ now' \in Nat
    BY <2>1, TypeFacts
  <2> QED
    BY <2>1, <2>2, FrameStep
<1> QED
  BY <1>1, <1>2, <1>3, <1>4, <1>5, <1>6, <1>7, <1>8, <1>9, <1>10, <1>11, <1>12 DEF Next

LEMMA InitHolds ==
    ASSUME Init
    PROVE  IInv
<1>1. Live = {}
  BY DEF Init, Live
<1>2. items \in [Live -> Item]
  BY <1>1 DEF Init, Live
<1> QED
  BY <1>1, <1>2 DEF Init, IInv, TypeOK, PendingAnnounced

\* The invariant holds in every reachable state.
LEMMA Invariance == Spec => []IInv
  BY InitHolds, NextPreserves, PTL DEF Spec

-----------------------------------------------------------------------------
(***************************************************************************)
(* The theorems.                                                           *)
(***************************************************************************)

\* Every item keeps the types of its fields, its queue never exceeds queue_size
\* whatever modify asks for, and a value is held back only behind an accepted one.
THEOREM TypeCorrect == Spec => []TypeOK
<1>1. IInv => TypeOK
  BY DEF IInv
<1> QED
  BY <1>1, Invariance, PTL

\* notified_monitored_items never misses an item that holds something, but for the
\* two cases `quiet` records.
THEOREM AlwaysAnnounced == Spec => []PendingAnnounced
<1>1. IInv => PendingAnnounced
  BY DEF IInv
<1> QED
  BY <1>1, Invariance, PTL

\* enqueue_notification and notify_event: no notification is discarded from a queue
\* of more than one entry without the client being told.
THEOREM LossAlwaysFlagged == Spec => []LossFlagged
<1>1. IInv => LossFlagged
  <2> SUFFICES ASSUME IInv, NEW id \in Live, items[id].lost
               PROVE  IF IsData(items[id])
                      THEN \E k \in DOMAIN items[id].queue : items[id].queue[k].overflow
                      ELSE items[id].overflowEvent
    BY DEF LossFlagged
  <2>1. LossOK(items[id])
    BY TypeFacts DEF ItemOK
  <2> QED
    BY <2>1 DEF LossOK, Overflowed
<1> QED
  BY <1>1, Invariance, PTL

\* The SemanticsChanged bit armed by notify_eu_range_changed is not lost, and put on a
\* value sampled before the change only if that value was held back again after it.
THEOREM SemanticsAlwaysExact == Spec => []SemanticsExact
<1>1. IInv => SemanticsExact
  <2> SUFFICES ASSUME IInv, NEW id \in Live
               PROVE  LET i == items[id] IN
                      /\ i.semanticsDue => i.semantics \/ \E k \in DOMAIN i.queue : i.queue[k].semantics
                      /\ \A k \in DOMAIN i.queue : i.queue[k].semantics => After(i.queue[k].value)
    BY DEF SemanticsExact, After
  <2>1. PICK i : i = items[id]
    OBVIOUS
  <2>2. DueOK(i) /\ InOrder(i.queue) /\ i.queue \in Seq(Notification)
    BY <2>1, TypeFacts DEF ItemOK, BitsOK, Item
  <2>3. \A k \in DOMAIN i.queue : i.queue[k].semantics => After(i.queue[k].value)
    <3> TAKE k \in DOMAIN i.queue
    <3>1. k <= k
      BY <2>2
    <3> QED
      BY <2>2, <3>1 DEF InOrder
  <2> QED
    BY <2>1, <2>2, <2>3 DEF DueOK, Signals
<1> QED
  BY <1>1, Invariance, PTL

\* notify_data_value and maybe_enqueue_skipped_value: the last value handed in is the
\* one held back or the last one accepted.
THEOREM LatestAlwaysKept == Spec => []LatestKept
<1>1. IInv => LatestKept
  <2> SUFFICES ASSUME IInv, NEW id \in Live \ EventIds
               PROVE  LET i == items[id] IN
                      i.actual # -1 /\ ~i.stale =>
                        i.actual = IF i.skipped # NoValue THEN i.skipped.val ELSE i.last.val
    BY DEF LatestKept
  <2>1. LatestOK(items[id]) /\ IsData(items[id])
    BY TypeFacts DEF ItemOK
  <2> QED
    BY <2>1 DEF LatestOK
<1> QED
  BY <1>1, Invariance, PTL
=============================================================================
