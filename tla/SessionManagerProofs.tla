------------------------ MODULE SessionManagerProofs ------------------------
(***************************************************************************)
(* Proofs about SessionManager for every set of channels, every number of  *)
(* sessions and calls, and all limits and timeouts.                        *)
(***************************************************************************)
EXTENDS SessionManager, FiniteSetTheorems, WellFoundedInduction, TLAPS

-----------------------------------------------------------------------------
(***************************************************************************)
(* The inductive invariant.                                                *)
(***************************************************************************)

\* A call works on a session that was created.
CallsNameCreated == \A c \in Channels : ~Idle(c) => op[c].id \in 1..created

\* What a close knows of the actor it waits for: between the Terminate and the
\* cleanup the session is closed, after the cleanup it has no token.
ClosesTracked ==
    /\ \A s \in 1..created : actor[s] = "closing" => ses[s].closed
    /\ \A c \in Channels : op[c].pc = "terminating" => actor[op[c].id] = "closing"
    /\ \A c \in Channels : op[c].pc = "closed" => op[c].id \notin tokens

\* The list of the expiry task is empty except between its scan and its removals.
ListedWhileExpiring == monitor.pc # "expire" => monitor.expired = {}

\* What the alarm of the expiry task promises already while it still removes the
\* sessions on its list.
AlarmInTime ==
    monitor.pc # "scan" /\ ~monitor.notified =>
      \A e \in expiryHeap :
        e.id \in sessions \ monitor.expired /\ <<"expiry", e.id>> \notin skipped
          => monitor.wake <= e.due

IInv ==
    /\ TypeOK
    /\ CallsNameCreated
    /\ ClosesTracked
    /\ TokensNameSessions
    /\ EvictionCovers
    /\ ListedWhileExpiring
    /\ HeapCoversSessions
    /\ AlarmInTime

-----------------------------------------------------------------------------
(***************************************************************************)
(* The operators.                                                          *)
(***************************************************************************)

\* LeastOf is the minimum of every set of natural numbers that has an element.
LEMMA LeastOfNat ==
    ASSUME NEW S \in SUBSET Nat, S # {}
    PROVE  LeastOf(S) \in S /\ \A y \in S : LeastOf(S) <= y
<1> DEFINE R == {ss \in Nat \X Nat : ss[1] < ss[2]}
<1>1. IsWellFoundedOn(R, Nat)
  BY NatLessThanWellFounded DEF OpToRel
<1> HIDE DEF R
<1>2. PICK x \in S : \A y \in S : ~(<<y, x>> \in R)
  BY <1>1, WFMin
<1>3. ASSUME NEW y \in S PROVE x <= y
  <2>1. x \in Nat /\ y \in Nat /\ ~(<<y, x>> \in R)
    BY <1>2
  <2>2. ~(y < x)
    BY <2>1 DEF R
  <2> QED
    BY <2>1, <2>2
<1> QED
  BY <1>3 DEF LeastOf

LEMMA LeastOfTwo ==
    ASSUME NEW a \in Nat, NEW b \in Nat
    PROVE  LeastOf({a, b}) = IF a <= b THEN a ELSE b
<1>1. LeastOf({a, b}) \in {a, b} /\ \A y \in {a, b} : LeastOf({a, b}) <= y
  BY LeastOfNat
<1> QED
  BY <1>1

\* The time a session has left, as a function of its record.
Left(r) == IF Timeout > r.idle THEN Timeout - r.idle ELSE 0
UnactivatedLeft(r) ==
    IF Left(r) <= UnactivatedTimeout - r.age THEN Left(r) ELSE UnactivatedTimeout - r.age
DueIn(r) == IF r.user THEN Left(r) ELSE UnactivatedLeft(r)

LEMMA LeftFacts ==
    ASSUME NEW r \in SessionRecord
    PROVE  /\ Left(r) \in Nat /\ UnactivatedLeft(r) \in Nat /\ DueIn(r) \in Nat
           /\ Left(r) \in 0..MaxTimeout /\ UnactivatedLeft(r) \in 0..MaxTimeout
           /\ UnactivatedLeft(r) <= Left(r)
           /\ DueIn(r) \in 0..MaxTimeout /\ DueIn(r) <= Left(r) /\ UnactivatedLeft(r) <= DueIn(r)
           /\ LeastOf({Left(r), UnactivatedTimeout - r.age}) = UnactivatedLeft(r)
<1>1. Left(r) \in 0..MaxTimeout /\ UnactivatedTimeout - r.age \in Nat
  BY SessionManagerAssumption DEF Left, SessionRecord
<1>2. LeastOf({Left(r), UnactivatedTimeout - r.age}) = UnactivatedLeft(r)
  BY <1>1, LeastOfTwo DEF UnactivatedLeft
<1> QED
  BY <1>1, <1>2, SessionManagerAssumption DEF DueIn, UnactivatedLeft

LEMMA TimeLeftIs ==
    ASSUME TypeOK, NEW s \in 1..created
    PROVE  /\ ses[s] \in SessionRecord
           /\ TimeLeft(s) = Left(ses[s])
           /\ UnactivatedTimeLeft(s) = UnactivatedLeft(ses[s])
           /\ ExpiryTimeLeft(s) = IF IsActivated(s) THEN Left(ses[s]) ELSE UnactivatedLeft(ses[s])
<1>1. ses[s] \in SessionRecord
  BY DEF TypeOK
<1>2. TimeLeft(s) = Left(ses[s])
  BY DEF TimeLeft, Left
<1> QED
  BY <1>1, <1>2, LeftFacts DEF UnactivatedTimeLeft, ExpiryTimeLeft

\* HeapCoversSessions in terms of DueIn, in the state before and after a step.
Covered == \A s \in sessions :
    \/ <<"expiry", s>> \in skipped
    \/ s \in monitor.expired
    \/ \E e \in expiryHeap : e.id = s /\ e.due <= DueIn(ses[s])

LEMMA CoveredIs == ASSUME TypeOK PROVE HeapCoversSessions <=> Covered
<1>1. \A s \in sessions :
        (IF ses[s].user THEN TimeLeft(s) ELSE UnactivatedTimeLeft(s)) = DueIn(ses[s])
  <2> TAKE s \in sessions
  <2>1. s \in 1..created
    BY DEF TypeOK
  <2> QED
    BY <2>1, TimeLeftIs DEF DueIn
<1> QED
  BY <1>1 DEF HeapCoversSessions, Covered

LEMMA CoveredIsPrimed == ASSUME TypeOK' PROVE HeapCoversSessions' <=> Covered'
<1>1. \A s \in sessions' :
        (IF ses'[s].user THEN TimeLeft(s)' ELSE UnactivatedTimeLeft(s)') = DueIn(ses'[s])
  <2> TAKE s \in sessions'
  <2>1. s \in 1..created' /\ ses'[s] \in SessionRecord
    BY DEF TypeOK
  <2>2. TimeLeft(s)' = Left(ses'[s])
    BY DEF TimeLeft, Left
  <2>3. UnactivatedTimeLeft(s)' = UnactivatedLeft(ses'[s])
    BY <2>1, <2>2, LeftFacts DEF UnactivatedTimeLeft
  <2> QED
    BY <2>2, <2>3 DEF DueIn
<1> QED
  BY <1>1 DEF HeapCoversSessions, Covered

LEMMA DecrementedType ==
    ASSUME NEW cnt \in [Channels -> 0..(CounterMod - 1)], NEW c
    PROVE  Decremented(cnt, c) \in [Channels -> 0..(CounterMod - 1)]
<1>1. \A n \in 0..(CounterMod - 1) : (n - 1) % CounterMod \in 0..(CounterMod - 1)
  BY SessionManagerAssumption
<1> QED
  BY <1>1 DEF Decremented

\* What the search for a session to evict takes out of unactivated_heap: every
\* session it drops without evicting it is activated or was locked.
LEMMA EvictionFacts ==
    ASSUME TypeOK
    PROVE  /\ Evicted \subseteq sessions
           /\ CounterAfterEviction \in [Channels -> 0..(CounterMod - 1)]
           /\ LeftInHeap \subseteq unactHeap
           /\ SkippedForEviction \subseteq 1..created
           /\ AllClosed(Evicted) \in [1..created -> SessionRecord]
           /\ \A s \in 1..created :
                /\ AllClosed(Evicted)[s].user = ses[s].user
                /\ AllClosed(Evicted)[s].closed = (s \in Evicted \/ ses[s].closed)
                /\ AllClosed(Evicted)[s].idle = ses[s].idle
                /\ AllClosed(Evicted)[s].age = ses[s].age
           /\ \A s \in (unactHeap \intersect sessions) \ Evicted :
                ses[s].user \/ s \in LeftInHeap \/ (AtLimit /\ s \in SkippedForEviction)
<1>1. Evictable \subseteq Nat /\ Evictable \subseteq sessions /\ Evictable \subseteq unactHeap
  <2>1. created \in Nat /\ unactHeap \subseteq 1..created
    BY DEF TypeOK
  <2>2. Evictable \subseteq unactHeap /\ Evictable \subseteq sessions
    BY DEF Evictable
  <2>3. 1..created \subseteq Nat
    BY <2>1
  <2> QED
    BY <2>1, <2>2, <2>3
<1>2. Evictable # {} => /\ LeastOf(Evictable) \in Evictable
                        /\ \A y \in Evictable : LeastOf(Evictable) <= y
  BY <1>1, LeastOfNat
<1>3. Evicted \subseteq sessions
  BY <1>1, <1>2 DEF Evicted
<1>4. CounterAfterEviction \in [Channels -> 0..(CounterMod - 1)]
  BY DecrementedType DEF CounterAfterEviction, TypeOK
<1>5. LeftInHeap \subseteq unactHeap
  BY DEF LeftInHeap
<1>6. SkippedForEviction \subseteq 1..created
  BY DEF SkippedForEviction, TypeOK
<1>7. \A s \in 1..created :
        /\ AllClosed(Evicted)[s] \in SessionRecord
        /\ AllClosed(Evicted)[s].user = ses[s].user
        /\ AllClosed(Evicted)[s].closed = (s \in Evicted \/ ses[s].closed)
        /\ AllClosed(Evicted)[s].idle = ses[s].idle
        /\ AllClosed(Evicted)[s].age = ses[s].age
  <2> TAKE s \in 1..created
  <2>1. ses[s] \in SessionRecord
    BY DEF TypeOK
  <2> QED
    BY <2>1 DEF AllClosed, SessionRecord
<1>8. ASSUME NEW s \in (unactHeap \intersect sessions) \ Evicted, ~ses[s].user, s \notin LeftInHeap
      PROVE  AtLimit /\ s \in SkippedForEviction
  <2>1. AtLimit /\ s \in PoppedForEviction
    BY <1>8 DEF LeftInHeap
  <2>2. ~IsActivated(s)
    BY <1>8 DEF IsActivated
  <2>3. s \notin Evictable
    <3>1. SUFFICES ASSUME s \in Evictable PROVE FALSE
      OBVIOUS
    <3>2. LeastOf(Evictable) <= s /\ s <= LeastOf(Evictable)
      BY <3>1, <1>2, <2>1 DEF PoppedForEviction
    <3>3. LeastOf(Evictable) \in Nat /\ s \in Nat
      BY <3>1, <1>1, <1>2
    <3>4. s \in Evicted
      BY <3>1, <3>2, <3>3, <2>1 DEF Evicted
    <3> QED
      BY <3>4
  <2>4. s \in Locked
    BY <2>2, <2>3 DEF Evictable
  <2> QED
    BY <2>1, <2>2, <2>4 DEF SkippedForEviction
<1>9. AllClosed(Evicted) \in [1..created -> SessionRecord]
  BY <1>7 DEF AllClosed
<1> QED
  BY <1>3, <1>4, <1>5, <1>6, <1>7, <1>8, <1>9

-----------------------------------------------------------------------------
(***************************************************************************)
(* Steps that keep the heap, or only add to it.                            *)
(***************************************************************************)

\* The heap still covers the sessions when no deadline moves forward.
LEMMA HeapKept ==
    ASSUME IInv, TypeOK',
           sessions' \subseteq sessions, skipped \subseteq skipped',
           expiryHeap \subseteq expiryHeap', monitor.expired \subseteq monitor'.expired,
           \A s \in sessions' : DueIn(ses[s]) <= DueIn(ses'[s])
    PROVE  HeapCoversSessions'
<1>1. Covered
  BY CoveredIs DEF IInv
<1>2. ASSUME NEW s \in sessions', <<"expiry", s>> \notin skipped', s \notin monitor'.expired
      PROVE  \E e \in expiryHeap' : e.id = s /\ e.due <= DueIn(ses'[s])
  <2>1. PICK e \in expiryHeap : e.id = s /\ e.due <= DueIn(ses[s])
    BY <1>1, <1>2 DEF Covered
  <2>2. ses[s] \in SessionRecord /\ ses'[s] \in SessionRecord /\ e.due \in Nat
    BY DEF IInv, TypeOK
  <2>3. DueIn(ses[s]) \in Nat /\ DueIn(ses'[s]) \in Nat
    BY <2>2, LeftFacts
  <2> QED
    BY <2>1, <2>2, <2>3
<1> QED
  BY <1>2, CoveredIsPrimed DEF Covered

\* The alarm is still in time when heap and expiry task are left alone.
LEMMA AlarmKept ==
    ASSUME IInv, sessions' \subseteq sessions, skipped \subseteq skipped',
           expiryHeap' = expiryHeap, monitor' = monitor
    PROVE  AlarmInTime' /\ ListedWhileExpiring'
  BY DEF IInv, AlarmInTime, ListedWhileExpiring

\* A step that only moves calls or the locks of services.
LEMMA OnlyCalls ==
    ASSUME IInv, UNCHANGED <<indexVars, ses, actor, monitor, skipped, hit>>,
           calls' \in 0..MaxCalls, serving' \subseteq 1..created,
           op' \in [Channels -> OpRecord], CallsNameCreated', ClosesTracked'
    PROVE  IInv'
<1>1. TypeOK'
  BY DEF IInv, TypeOK, indexVars
<1>2. \A s \in sessions : DueIn(ses[s]) <= DueIn(ses[s])
  <2> TAKE s \in sessions
  <2>1. ses[s] \in SessionRecord
    BY DEF IInv, TypeOK
  <2>2. DueIn(ses[s]) \in Nat
    BY <2>1, LeftFacts
  <2> QED
    BY <2>2
<1>3. HeapCoversSessions'
  BY <1>1, <1>2, HeapKept DEF indexVars
<1>4. AlarmInTime' /\ ListedWhileExpiring'
  BY AlarmKept DEF indexVars
<1>5. TokensNameSessions' /\ EvictionCovers'
  BY DEF IInv, TokensNameSessions, EvictionCovers, indexVars
<1> QED
  BY <1>1, <1>3, <1>4, <1>5 DEF IInv

\* A session that is touched, activated or closed is not due earlier.
LEMMA DueGrows ==
    ASSUME NEW r \in SessionRecord, NEW q \in SessionRecord,
           r.user => q.user, q.idle <= r.idle, q.age = r.age
    PROVE  DueIn(r) <= DueIn(q)
<1>1. Left(r) <= Left(q)
  BY SessionManagerAssumption DEF Left, SessionRecord
<1>2. UnactivatedLeft(r) <= UnactivatedLeft(q)
  <2>1. UnactivatedTimeout - q.age = UnactivatedTimeout - r.age /\ UnactivatedTimeout - r.age \in Nat
    BY SessionManagerAssumption DEF SessionRecord
  <2>2. Left(r) \in Nat /\ Left(q) \in Nat
    BY LeftFacts
  <2> QED
    BY <1>1, <2>1, <2>2 DEF UnactivatedLeft
<1>3. /\ UnactivatedLeft(r) <= DueIn(r) /\ DueIn(r) <= Left(r)
      /\ UnactivatedLeft(q) <= DueIn(q) /\ DueIn(q) <= Left(q)
      /\ \A n \in {Left(r), Left(q), UnactivatedLeft(r), UnactivatedLeft(q), DueIn(r), DueIn(q)} : n \in Nat
  BY LeftFacts
<1>4. CASE q.user
  BY <1>1, <1>3, <1>4 DEF DueIn
<1>5. CASE ~q.user
  BY <1>2, <1>5 DEF DueIn
<1> QED
  BY <1>4, <1>5

\* The records of the calls.
CallRecord ==
    [pc : {"verify", "commit", "count", "terminate", "terminating", "closed"},
     id : Ids, was : BOOLEAN, prev : Channels, fresh : BOOLEAN]

LEMMA CallFacts ==
    ASSUME TypeOK, NEW c \in Channels
    PROVE  /\ Idle(c) <=> op[c] = NoOp
           /\ ~Idle(c) => op[c] \in CallRecord
           /\ NoOp \in OpRecord /\ CallRecord \subseteq OpRecord /\ NoOp.pc = "idle"
           /\ \A s \in 1..created : s \in Ids
<1>1. op[c] \in {NoOp} \union CallRecord
  BY DEF TypeOK, OpRecord, CallRecord
<1>2. \A r \in CallRecord : r.pc # "idle"
  BY DEF CallRecord
<1>3. NoOp.pc = "idle"
  BY DEF NoOp
<1>4. \A s \in 1..created : s \in Ids
  BY SessionManagerAssumption DEF TypeOK, Ids
<1> QED
  BY <1>1, <1>2, <1>3, <1>4 DEF Idle, OpRecord, CallRecord

\* A step that changes sessions without making one due earlier, and leaves the
\* maps, the heaps and the expiry task alone.
LEMMA OnlySessions ==
    ASSUME IInv, UNCHANGED <<indexVars, monitor, skipped>>, hit' \in BOOLEAN,
           calls' \in 0..MaxCalls, serving' \subseteq 1..created,
           op' \in [Channels -> OpRecord], CallsNameCreated', ClosesTracked',
           ses' \in [1..created -> SessionRecord],
           actor' \in [1..created -> {"running", "closing", "ended"}],
           \A s \in 1..created :
             /\ ses[s].user => ses'[s].user
             /\ ses[s].closed => ses'[s].closed
             /\ ses'[s].idle <= ses[s].idle /\ ses'[s].age = ses[s].age,
           \A s \in sessions \ tokens : actor[s] = "ended" => actor'[s] = "ended"
    PROVE  IInv'
<1>1. TypeOK'
  BY DEF IInv, TypeOK, indexVars
<1>2. \A s \in sessions : s \in 1..created
  BY DEF IInv, TypeOK
<1>3. \A s \in sessions : DueIn(ses[s]) <= DueIn(ses'[s])
  <2> TAKE s \in sessions
  <2>1. ses[s] \in SessionRecord /\ ses'[s] \in SessionRecord
    BY <1>2 DEF IInv, TypeOK
  <2> QED
    BY <2>1, <1>2, DueGrows
<1>4. HeapCoversSessions'
  BY <1>1, <1>3, HeapKept DEF indexVars
<1>5. AlarmInTime' /\ ListedWhileExpiring'
  BY AlarmKept DEF indexVars
<1>6. TokensNameSessions'
  BY <1>2 DEF IInv, TokensNameSessions, indexVars
<1>7. EvictionCovers'
  BY <1>2 DEF IInv, EvictionCovers, indexVars
<1> QED
  BY <1>1, <1>4, <1>5, <1>6, <1>7 DEF IInv

-----------------------------------------------------------------------------
(***************************************************************************)
(* One lemma per action.                                                   *)
(***************************************************************************)

LEMMA InitEstablishes == Init => IInv
<1> SUFFICES ASSUME Init PROVE IInv
  OBVIOUS
<1>1. TypeOK
  <2>1. created = 0 /\ 1..created = {}
    BY DEF Init
  <2>2. ses \in [1..created -> SessionRecord] /\ actor \in [1..created -> {"running", "closing", "ended"}]
    BY <2>1 DEF Init
  <2>3. counter \in [Channels -> 0..(CounterMod - 1)] /\ op \in [Channels -> OpRecord]
    BY SessionManagerAssumption DEF Init, OpRecord
  <2>4. monitor \in [pc : {"scan", "expire", "sleep"}, expired : SUBSET (1..created),
                     wake : 0..MaxTimeout, notified : BOOLEAN]
    BY SessionManagerAssumption DEF Init
  <2>5. created \in 0..MaxId /\ calls \in 0..MaxCalls
    BY SessionManagerAssumption DEF Init
  <2>6. \A S : {} \subseteq S
    OBVIOUS
  <2>7. /\ sessions = {} /\ tokens = {} /\ senders = {} /\ expiryHeap = {} /\ unactHeap = {}
        /\ serving = {} /\ skipped = {} /\ hit \in BOOLEAN
    BY DEF Init
  <2> QED
    BY <2>2, <2>3, <2>4, <2>5, <2>6, <2>7, Zenon DEF TypeOK
<1>2. \A c \in Channels : op[c].pc = "idle"
  BY DEF Init, NoOp
<1>3. CallsNameCreated /\ ClosesTracked
  BY <1>2 DEF CallsNameCreated, ClosesTracked, Idle, Init
<1> QED
  BY <1>1, <1>3 DEF Init, IInv, TokensNameSessions, EvictionCovers, ListedWhileExpiring,
                    HeapCoversSessions, AlarmInTime

LEMMA CreateRefusedPreserves ==
    ASSUME IInv, NEW c \in Channels, CreateRefused(c), calls' \in 0..MaxCalls
    PROVE  IInv'
<1>1. TypeOK
  BY DEF IInv
<1>2. /\ sessions' = sessions \ Evicted /\ tokens' = tokens \ Evicted
      /\ senders' = senders \ Evicted /\ ses' = AllClosed(Evicted)
      /\ unactHeap' = LeftInHeap /\ counter' = CounterAfterEviction
      /\ skipped' = skipped \union (IF AtLimit THEN {"evict"} \X SkippedForEviction ELSE {})
      /\ hit' \in BOOLEAN
      /\ UNCHANGED <<created, actor, expiryHeap, op, serving, monitor>>
  BY <1>1 DEF CreateRefused, Evict, TypeOK
<1>3. TypeOK'
  <2>1. skipped' \subseteq {"expiry", "evict"} \X (1..created)
    BY <1>1, <1>2, EvictionFacts DEF TypeOK
  <2> QED
    BY <1>1, <1>2, <2>1, EvictionFacts DEF TypeOK
<1>4. CallsNameCreated'
  BY <1>2 DEF IInv, CallsNameCreated, Idle
<1>5. ClosesTracked'
  BY <1>1, <1>2, EvictionFacts DEF IInv, ClosesTracked
<1>6. TokensNameSessions'
  <2>1. \A s \in sessions' \ tokens' : s \in sessions \ tokens /\ s \in 1..created
    BY <1>1, <1>2 DEF TypeOK
  <2> QED
    BY <1>1, <1>2, <2>1, EvictionFacts DEF IInv, TokensNameSessions
<1>7. EvictionCovers'
  <2> SUFFICES ASSUME NEW s \in sessions \ Evicted, ~ses'[s].user, <<"evict", s>> \notin skipped'
               PROVE  s \in unactHeap'
    BY <1>2 DEF EvictionCovers
  <2>1. s \in 1..created /\ ~ses[s].user /\ <<"evict", s>> \notin skipped
    BY <1>1, <1>2, EvictionFacts DEF TypeOK
  <2>2. s \in unactHeap
    BY <2>1 DEF IInv, EvictionCovers
  <2> QED
    BY <1>1, <1>2, <2>1, <2>2, EvictionFacts
<1>8. HeapCoversSessions'
  <2>1. \A s \in sessions' : DueIn(ses[s]) <= DueIn(ses'[s])
    <3> TAKE s \in sessions'
    <3>1. s \in 1..created /\ ses[s] \in SessionRecord /\ ses'[s] \in SessionRecord
      BY <1>1, <1>2, EvictionFacts DEF TypeOK
    <3>2. ses[s].idle \in Nat
      BY <3>1, SessionManagerAssumption DEF SessionRecord
    <3> QED
      BY <1>1, <1>2, <3>1, <3>2, EvictionFacts, DueGrows
  <2> QED
    BY <1>2, <1>3, <2>1, HeapKept
<1>9. AlarmInTime' /\ ListedWhileExpiring'
  BY <1>2, AlarmKept
<1> QED
  BY <1>3, <1>4, <1>5, <1>6, <1>7, <1>8, <1>9 DEF IInv

LEMMA CreatePreserves ==
    ASSUME IInv, NEW c \in Channels, Create(c), calls' \in 0..MaxCalls
    PROVE  IInv'
<1> DEFINE n == created + 1
           due == LeastOf({Timeout, UnactivatedTimeout})
<1>1. TypeOK
  BY DEF IInv
<1>2. /\ created' = n /\ created < MaxId
      /\ sessions' = (sessions \ Evicted) \union {n}
      /\ tokens' = (tokens \ Evicted) \union {n}
      /\ senders' = (senders \ Evicted) \union {n}
      /\ ses' = [t \in 1..n |-> IF t = n THEN NewSession(c) ELSE AllClosed(Evicted)[t]]
      /\ actor' = [t \in 1..n |-> IF t = n THEN "running" ELSE actor[t]]
      /\ counter' = [CounterAfterEviction EXCEPT ![c] = (@ + 1) % CounterMod]
      /\ unactHeap' = LeftInHeap \union {n}
      /\ expiryHeap' = expiryHeap \union {[id |-> n, due |-> due]}
      /\ monitor' = [monitor EXCEPT !.notified = TRUE]
      /\ skipped' = skipped \union (IF AtLimit THEN {"evict"} \X SkippedForEviction ELSE {})
      /\ hit' \in BOOLEAN
      /\ UNCHANGED <<op, serving>>
  BY <1>1 DEF Create, Evict, Offered, Notified, TypeOK
<1>3. created \in Nat /\ n \in 1..MaxId /\ n \notin 1..created /\ 1..n = (1..created) \union {n}
  BY <1>1, <1>2, SessionManagerAssumption, SMTT(30) DEF TypeOK
<1>4. NewSession(c) \in SessionRecord
  BY SessionManagerAssumption DEF NewSession, SessionRecord
<1>5. due = (IF Timeout <= UnactivatedTimeout THEN Timeout ELSE UnactivatedTimeout)
  BY LeastOfTwo, SessionManagerAssumption
<1>6. due \in 0..MaxTimeout /\ DueIn(NewSession(c)) = due
  BY <1>5, SessionManagerAssumption DEF DueIn, UnactivatedLeft, Left, NewSession
<1> HIDE DEF n, due
<1>7. \A s \in 1..created : s # n /\ s \in 1..n /\ ses'[s] = AllClosed(Evicted)[s] /\ actor'[s] = actor[s]
  BY <1>2, <1>3
<1>8. n \in 1..n /\ ses'[n] = NewSession(c) /\ actor'[n] = "running"
  BY <1>2, <1>3
<1>9. TypeOK'
  <2>1. created' \in 0..MaxId
    BY <1>2, <1>3
  <2>2. /\ sessions' \subseteq 1..n /\ tokens' \subseteq 1..n /\ senders' \subseteq 1..n
        /\ unactHeap' \subseteq 1..n /\ serving' \subseteq 1..n
    BY <1>1, <1>2, <1>3, EvictionFacts DEF TypeOK
  <2>3. ses' \in [1..n -> SessionRecord]
    BY <1>1, <1>2, <1>3, <1>4, EvictionFacts
  <2>4. actor' \in [1..n -> {"running", "closing", "ended"}]
    BY <1>1, <1>2, <1>3 DEF TypeOK
  <2>5. counter' \in [Channels -> 0..(CounterMod - 1)]
    <3>1. \A k \in 0..(CounterMod - 1) : (k + 1) % CounterMod \in 0..(CounterMod - 1)
      BY SessionManagerAssumption
    <3> QED
      BY <1>1, <1>2, <3>1, EvictionFacts
  <2>6. expiryHeap' \subseteq [id : 1..n, due : 0..MaxTimeout]
    BY <1>1, <1>2, <1>3, <1>6 DEF TypeOK
  <2>7. monitor' \in [pc : {"scan", "expire", "sleep"}, expired : SUBSET (1..n),
                       wake : 0..MaxTimeout, notified : BOOLEAN]
    BY <1>1, <1>2, <1>3 DEF TypeOK
  <2>8. skipped' \subseteq {"expiry", "evict"} \X (1..n)
    BY <1>1, <1>2, <1>3, EvictionFacts, SMTT(30) DEF TypeOK
  <2> QED
    BY <1>1, <1>2, <2>1, <2>2, <2>3, <2>4, <2>5, <2>6, <2>7, <2>8 DEF TypeOK
<1>10. CallsNameCreated'
  BY <1>2, <1>3 DEF IInv, CallsNameCreated, Idle
<1>11. ClosesTracked'
  <2>1. \A s \in 1..n : actor'[s] = "closing" => ses'[s].closed
    BY <1>1, <1>3, <1>7, <1>8, EvictionFacts DEF IInv, ClosesTracked
  <2>2. \A d \in Channels : op'[d].pc \in {"terminating", "closed"} => op[d].id \in 1..created
    BY <1>2 DEF IInv, CallsNameCreated, Idle
  <2>3. \A d \in Channels : op'[d].pc = "terminating" => actor'[op'[d].id] = "closing"
    BY <1>2, <1>7, <2>2 DEF IInv, ClosesTracked
  <2>4. \A d \in Channels : op'[d].pc = "closed" => op'[d].id \notin tokens'
    BY <1>2, <1>7, <2>2 DEF IInv, ClosesTracked
  <2> QED
    BY <1>2, <2>1, <2>3, <2>4 DEF ClosesTracked
<1>12. TokensNameSessions'
  <2>1. \A s \in sessions' \ tokens' : s \in sessions \ tokens /\ s \in 1..created
    BY <1>1, <1>2 DEF TypeOK
  <2> QED
    BY <1>1, <1>2, <1>7, <2>1, EvictionFacts DEF IInv, TokensNameSessions
<1>13. EvictionCovers'
  <2> SUFFICES ASSUME NEW s \in sessions \ Evicted, ~ses'[s].user, <<"evict", s>> \notin skipped'
               PROVE  s \in unactHeap'
    BY <1>2 DEF EvictionCovers
  <2>1. s \in 1..created /\ ~ses[s].user /\ <<"evict", s>> \notin skipped
    BY <1>1, <1>2, <1>7, EvictionFacts DEF TypeOK
  <2>2. s \in unactHeap
    BY <2>1 DEF IInv, EvictionCovers
  <2> QED
    BY <1>1, <1>2, <2>1, <2>2, EvictionFacts
<1>14. HeapCoversSessions'
  <2>1. Covered
    BY <1>1, CoveredIs DEF IInv
  <2>2. ASSUME NEW s \in sessions \ Evicted, <<"expiry", s>> \notin skipped', s \notin monitor'.expired
        PROVE  \E e \in expiryHeap' : e.id = s /\ e.due <= DueIn(ses'[s])
    <3>1. s \in 1..created /\ ses[s] \in SessionRecord /\ ses'[s] \in SessionRecord
      BY <1>1, <1>7, EvictionFacts DEF TypeOK
    <3>2. monitor'.expired = monitor.expired
      BY <1>1, <1>2 DEF TypeOK
    <3>3. PICK e \in expiryHeap : e.id = s /\ e.due <= DueIn(ses[s])
      BY <1>2, <2>1, <2>2, <3>2 DEF Covered
    <3>4. DueIn(ses[s]) <= DueIn(ses'[s])
      <4>1. ses[s].idle \in Nat
        BY <3>1, SessionManagerAssumption DEF SessionRecord
      <4> QED
        BY <1>1, <1>7, <3>1, <4>1, EvictionFacts, DueGrows
    <3>5. DueIn(ses[s]) \in Nat /\ DueIn(ses'[s]) \in Nat
      BY <3>1, LeftFacts
    <3>6. e.due \in Nat
      BY <1>1 DEF TypeOK
    <3>7. e.due <= DueIn(ses'[s]) /\ e \in expiryHeap'
      BY <1>2, <3>3, <3>4, <3>5, <3>6
    <3> QED
      BY <3>3, <3>7
  <2>3. \E e \in expiryHeap' : e.id = n /\ e.due <= DueIn(ses'[n])
    <3> DEFINE e == [id |-> n, due |-> due]
    <3>1. e.id = n /\ e.due = due /\ due <= due
      BY <1>6
    <3>2. e \in expiryHeap'
      BY <1>2
    <3> HIDE DEF e
    <3> QED
      BY <1>6, <1>8, <3>1, <3>2
  <2> QED
    BY <1>2, <1>9, <2>2, <2>3, CoveredIsPrimed DEF Covered
<1>15. AlarmInTime' /\ ListedWhileExpiring'
  BY <1>1, <1>2 DEF IInv, TypeOK, AlarmInTime, ListedWhileExpiring
<1> QED
  BY <1>9, <1>10, <1>11, <1>12, <1>13, <1>14, <1>15 DEF IInv

\* op[c] takes another call record, or none.
LEMMA CallMoves ==
    ASSUME TypeOK, CallsNameCreated, NEW c \in Channels, NEW r, op' = [op EXCEPT ![c] = r],
           created' = created,
           r = NoOp \/ (r \in CallRecord /\ r.id \in 1..created)
    PROVE  /\ op' \in [Channels -> OpRecord] /\ CallsNameCreated'
           /\ op'[c] = r /\ \A d \in Channels \ {c} : op'[d] = op[d]
<1>1. r \in OpRecord /\ op \in [Channels -> OpRecord]
  BY CallFacts DEF TypeOK
<1>2. op' \in [Channels -> OpRecord] /\ op'[c] = r /\ \A d \in Channels \ {c} : op'[d] = op[d]
  BY <1>1
<1>3. r.pc # "idle" => r.id \in 1..created
  BY CallFacts
<1> QED
  BY <1>2, <1>3 DEF CallsNameCreated, Idle

\* The three ways in which a step changes one session.
LEMMA SessionTouched ==
    ASSUME TypeOK, NEW s \in 1..created, ses' = [ses EXCEPT ![s].idle = 0]
    PROVE  /\ ses' \in [1..created -> SessionRecord]
           /\ \A t \in 1..created :
                /\ ses'[t].user = ses[t].user /\ ses'[t].closed = ses[t].closed
                /\ ses'[t].idle <= ses[t].idle /\ ses'[t].age = ses[t].age
<1> DEFINE q == [ses[s] EXCEPT !.idle = 0]
<1>1. \A t \in 1..created : ses[t] \in SessionRecord /\ ses[t].idle <= ses[t].idle
  <2> TAKE t \in 1..created
  <2>1. ses[t] \in SessionRecord
    BY DEF TypeOK
  <2> QED
    BY <2>1, SessionManagerAssumption DEF SessionRecord
<1>2. ses'[s] = q /\ \A t \in (1..created) \ {s} : ses'[t] = ses[t]
  BY <1>1 DEF TypeOK, SessionRecord
<1>3. q \in SessionRecord
  BY <1>1, SessionManagerAssumption DEF SessionRecord
<1>4. q.user = ses[s].user /\ q.closed = ses[s].closed /\ q.idle <= ses[s].idle /\ q.age = ses[s].age
  BY <1>1, SessionManagerAssumption DEF SessionRecord
<1> HIDE DEF q
<1>5. ses' = [t \in 1..created |-> ses'[t]]
  BY DEF TypeOK
<1>6. ASSUME NEW t \in 1..created
      PROVE  /\ ses'[t] \in SessionRecord
             /\ ses'[t].user = ses[t].user /\ ses'[t].closed = ses[t].closed
             /\ ses'[t].idle <= ses[t].idle /\ ses'[t].age = ses[t].age
  <2>1. CASE t = s
    BY <1>2, <1>3, <1>4, <2>1
  <2>2. CASE t # s
    BY <1>1, <1>2, <2>2
  <2> QED
    BY <2>1, <2>2
<1> QED
  BY <1>2, <1>4, <1>5, <1>6

LEMMA SessionClosed ==
    ASSUME TypeOK, NEW s \in 1..created, ses' = [ses EXCEPT ![s].closed = TRUE]
    PROVE  /\ ses' \in [1..created -> SessionRecord]
           /\ ses'[s].closed
           /\ \A t \in 1..created :
                /\ ses'[t].user = ses[t].user /\ (ses[t].closed => ses'[t].closed)
                /\ ses'[t].idle <= ses[t].idle /\ ses'[t].age = ses[t].age
<1> DEFINE q == [ses[s] EXCEPT !.closed = TRUE]
<1>1. \A t \in 1..created : ses[t] \in SessionRecord /\ ses[t].idle <= ses[t].idle
  <2> TAKE t \in 1..created
  <2>1. ses[t] \in SessionRecord
    BY DEF TypeOK
  <2> QED
    BY <2>1, SessionManagerAssumption DEF SessionRecord
<1>2. ses'[s] = q /\ \A t \in (1..created) \ {s} : ses'[t] = ses[t]
  BY <1>1 DEF TypeOK, SessionRecord
<1>3. q \in SessionRecord
  BY <1>1, SessionManagerAssumption DEF SessionRecord
<1>4. q.user = ses[s].user /\ q.closed = TRUE /\ q.idle <= ses[s].idle /\ q.age = ses[s].age
  BY <1>1, SessionManagerAssumption DEF SessionRecord
<1> HIDE DEF q
<1>5. ses' = [t \in 1..created |-> ses'[t]]
  BY DEF TypeOK
<1>6. ASSUME NEW t \in 1..created
      PROVE  /\ ses'[t] \in SessionRecord
             /\ ses'[t].user = ses[t].user /\ (ses[t].closed => ses'[t].closed)
             /\ ses'[t].idle <= ses[t].idle /\ ses'[t].age = ses[t].age
  <2>1. CASE t = s
    BY <1>2, <1>3, <1>4, <2>1
  <2>2. CASE t # s
    BY <1>1, <1>2, <2>2
  <2> QED
    BY <2>1, <2>2
<1> QED
  BY <1>2, <1>4, <1>5, <1>6

LEMMA SessionActivated ==
    ASSUME TypeOK, NEW s \in 1..created, NEW c \in Channels,
           ses' = [ses EXCEPT ![s].user = TRUE, ![s].channel = c]
    PROVE  /\ ses' \in [1..created -> SessionRecord]
           /\ \A t \in 1..created :
                /\ (ses[t].user => ses'[t].user) /\ ses'[t].closed = ses[t].closed
                /\ ses'[t].idle <= ses[t].idle /\ ses'[t].age = ses[t].age
<1> DEFINE q == [ses[s] EXCEPT !.user = TRUE, !.channel = c]
<1>1. \A t \in 1..created : ses[t] \in SessionRecord /\ ses[t].idle <= ses[t].idle
  <2> TAKE t \in 1..created
  <2>1. ses[t] \in SessionRecord
    BY DEF TypeOK
  <2> QED
    BY <2>1, SessionManagerAssumption DEF SessionRecord
<1>2. ses'[s] = q /\ \A t \in (1..created) \ {s} : ses'[t] = ses[t]
  BY <1>1 DEF TypeOK, SessionRecord
<1>3. q \in SessionRecord
  BY <1>1, SessionManagerAssumption DEF SessionRecord
<1>4. q.user = TRUE /\ q.closed = ses[s].closed /\ q.idle <= ses[s].idle /\ q.age = ses[s].age
  BY <1>1, SessionManagerAssumption DEF SessionRecord
<1> HIDE DEF q
<1>5. ses' = [t \in 1..created |-> ses'[t]]
  BY DEF TypeOK
<1>6. ASSUME NEW t \in 1..created
      PROVE  /\ ses'[t] \in SessionRecord
             /\ (ses[t].user => ses'[t].user) /\ ses'[t].closed = ses[t].closed
             /\ ses'[t].idle <= ses[t].idle /\ ses'[t].age = ses[t].age
  <2>1. CASE t = s
    BY <1>2, <1>3, <1>4, <2>1
  <2>2. CASE t # s
    BY <1>1, <1>2, <2>2
  <2> QED
    BY <2>1, <2>2
<1> QED
  BY <1>2, <1>4, <1>5, <1>6

LEMMA ActivateBeginPreserves ==
    ASSUME IInv, NEW c \in Channels, NEW s \in 1..created, ActivateBegin(c, s), calls' \in 0..MaxCalls
    PROVE  IInv'
<1> DEFINE r == Captured("verify", s, ~IsActivated(s), ses[s].channel)
<1>1. TypeOK /\ CallsNameCreated /\ ses[s] \in SessionRecord
  BY DEF IInv, TypeOK
<1>2. r \in CallRecord /\ r.id = s /\ r.pc = "verify"
  BY <1>1, CallFacts DEF Captured, CallRecord, SessionRecord
<1> HIDE DEF r
<1>3. /\ ses' = [ses EXCEPT ![s].idle = 0] /\ hit' \in BOOLEAN
      /\ op' = op \/ op' = [op EXCEPT ![c] = r]
      /\ UNCHANGED <<indexVars, actor, serving, monitor, skipped>>
  BY <1>1 DEF ActivateBegin, Touched, TypeOK, r
<1>4. created' = created /\ tokens' = tokens
  BY <1>3 DEF indexVars
<1>5. op' \in [Channels -> OpRecord] /\ CallsNameCreated'
      /\ \A d \in Channels : op'[d].pc \in {"terminating", "closed"} => op'[d] = op[d]
  <2>1. CASE op' = op
    BY <1>1, <1>4, <2>1 DEF TypeOK, CallsNameCreated, Idle
  <2>2. CASE op' = [op EXCEPT ![c] = r]
    BY <1>1, <1>2, <1>4, <2>2, CallMoves
  <2> QED
    BY <1>3, <2>1, <2>2
<1>6. /\ ses' \in [1..created -> SessionRecord]
      /\ \A t \in 1..created :
           /\ ses'[t].user = ses[t].user /\ ses'[t].closed = ses[t].closed
           /\ ses'[t].idle <= ses[t].idle /\ ses'[t].age = ses[t].age
  BY <1>1, <1>3, SessionTouched
<1>7. ClosesTracked'
  BY <1>3, <1>4, <1>5, <1>6 DEF IInv, ClosesTracked
<1>8. serving' \subseteq 1..created /\ actor' \in [1..created -> {"running", "closing", "ended"}] /\ actor' = actor
  BY <1>1, <1>3 DEF TypeOK
<1> QED
  BY <1>3, <1>5, <1>6, <1>7, <1>8, OnlySessions

LEMMA ActivateFailPreserves ==
    ASSUME IInv, NEW c \in Channels, ActivateFail(c), calls' \in 0..MaxCalls
    PROVE  IInv'
<1>1. TypeOK /\ CallsNameCreated
  BY DEF IInv
<1>2. op' = [op EXCEPT ![c] = NoOp] /\ UNCHANGED <<indexVars, ses, actor, serving, monitor, skipped, hit>>
  BY DEF ActivateFail
<1>3. created' = created /\ tokens' = tokens /\ ses' = ses /\ actor' = actor
  BY <1>2 DEF indexVars
<1>4. /\ op' \in [Channels -> OpRecord] /\ CallsNameCreated' /\ op'[c] = NoOp
      /\ \A d \in Channels \ {c} : op'[d] = op[d]
  BY <1>1, <1>2, <1>3, CallMoves
<1>5. ClosesTracked'
  BY <1>1, <1>3, <1>4, CallFacts DEF IInv, ClosesTracked
<1>6. serving' \subseteq 1..created
  BY <1>1, <1>2 DEF TypeOK
<1> QED
  BY <1>2, <1>4, <1>5, <1>6, OnlyCalls

LEMMA ActivateLockPreserves ==
    ASSUME IInv, NEW c \in Channels, ActivateLock(c), calls' \in 0..MaxCalls
    PROVE  IInv'
<1> DEFINE r == [op[c] EXCEPT !.pc = "commit"]
<1>1. TypeOK /\ CallsNameCreated
  BY DEF IInv
<1>2. /\ op[c].pc = "verify" /\ op' = [op EXCEPT ![c] = r]
      /\ UNCHANGED <<indexVars, ses, actor, serving, monitor, skipped, hit>>
  BY DEF ActivateLock
<1>3. created' = created /\ tokens' = tokens /\ ses' = ses /\ actor' = actor
  BY <1>2 DEF indexVars
<1>4. op[c] \in CallRecord /\ op[c].id \in 1..created
  BY <1>1, <1>2, CallFacts DEF CallsNameCreated, Idle
<1>5. r \in CallRecord /\ r.id = op[c].id /\ r.pc = "commit"
  BY <1>4 DEF CallRecord
<1> HIDE DEF r
<1>6. /\ op' \in [Channels -> OpRecord] /\ CallsNameCreated' /\ op'[c] = r
      /\ \A d \in Channels \ {c} : op'[d] = op[d]
  BY <1>1, <1>2, <1>3, <1>4, <1>5, CallMoves
<1>7. ClosesTracked'
  BY <1>3, <1>5, <1>6 DEF IInv, ClosesTracked
<1>8. serving' \subseteq 1..created
  BY <1>1, <1>2 DEF TypeOK
<1> QED
  BY <1>2, <1>6, <1>7, <1>8, OnlyCalls

LEMMA CloseBeginPreserves ==
    ASSUME IInv, NEW c \in Channels, NEW s \in 1..created, CloseBegin(c, s), calls' \in 0..MaxCalls
    PROVE  IInv'
<1> DEFINE r == Captured("terminate", s, ~IsActivated(s), ses[s].channel)
<1>1. TypeOK /\ CallsNameCreated /\ ses[s] \in SessionRecord
  BY DEF IInv, TypeOK
<1>2. r \in CallRecord /\ r.id = s /\ r.pc = "terminate"
  BY <1>1, CallFacts DEF Captured, CallRecord, SessionRecord
<1> HIDE DEF r
<1>3. /\ op' = [op EXCEPT ![c] = r]
      /\ UNCHANGED <<indexVars, ses, actor, serving, monitor, skipped, hit>>
  BY DEF CloseBegin, r
<1>4. created' = created /\ tokens' = tokens /\ ses' = ses /\ actor' = actor
  BY <1>3 DEF indexVars
<1>5. /\ op' \in [Channels -> OpRecord] /\ CallsNameCreated' /\ op'[c] = r
      /\ \A d \in Channels \ {c} : op'[d] = op[d]
  BY <1>1, <1>2, <1>3, <1>4, CallMoves
<1>6. ClosesTracked'
  BY <1>2, <1>4, <1>5 DEF IInv, ClosesTracked
<1>7. serving' \subseteq 1..created
  BY <1>1, <1>3 DEF TypeOK
<1> QED
  BY <1>3, <1>5, <1>6, <1>7, OnlyCalls

LEMMA ActivateCommitPreserves ==
    ASSUME IInv, NEW c \in Channels, ActivateCommit(c), calls' \in 0..MaxCalls
    PROVE  IInv'
<1>1. TypeOK /\ CallsNameCreated
  BY DEF IInv
<1>2. /\ op[c].pc = "commit"
      /\ UNCHANGED <<indexVars, actor, serving, monitor, skipped, hit>>
  BY DEF ActivateCommit
<1>3. created' = created /\ tokens' = tokens /\ actor' = actor /\ serving' \subseteq 1..created
      /\ hit' \in BOOLEAN /\ actor' \in [1..created -> {"running", "closing", "ended"}]
  BY <1>1, <1>2 DEF indexVars, TypeOK
<1>4. op[c] \in CallRecord /\ op[c].id \in 1..created
  BY <1>1, <1>2, CallFacts DEF CallsNameCreated, Idle
<1>5. CASE op' = [op EXCEPT ![c] = NoOp] /\ UNCHANGED ses
  <2>1. /\ op' \in [Channels -> OpRecord] /\ CallsNameCreated' /\ op'[c] = NoOp
        /\ \A d \in Channels \ {c} : op'[d] = op[d]
    BY <1>1, <1>3, <1>5, CallMoves
  <2>2. ClosesTracked'
    BY <1>1, <1>3, <1>5, <2>1, CallFacts DEF IInv, ClosesTracked
  <2> QED
    BY <1>2, <1>3, <1>5, <2>1, <2>2, OnlyCalls
<1>6. CASE /\ ses' = [ses EXCEPT ![op[c].id].user = TRUE, ![op[c].id].channel = c]
           /\ op' = [d \in Channels |->
                IF d = c THEN IF op[c].was THEN [op[c] EXCEPT !.pc = "count"] ELSE NoOp
                ELSE IF op[d].pc \in {"verify", "commit"} /\ op[d].id = op[c].id
                     THEN [op[d] EXCEPT !.fresh = FALSE] ELSE op[d]]
  <2>1. /\ ses' \in [1..created -> SessionRecord]
        /\ \A t \in 1..created :
             /\ (ses[t].user => ses'[t].user) /\ ses'[t].closed = ses[t].closed
             /\ ses'[t].idle <= ses[t].idle /\ ses'[t].age = ses[t].age
    BY <1>1, <1>4, <1>6, SessionActivated
  <2>2. ASSUME NEW d \in Channels
        PROVE  /\ op'[d] \in OpRecord
               /\ op'[d].pc # "idle" => op'[d].id \in 1..created
               /\ op'[d].pc \in {"terminating", "closed"} => op'[d] = op[d]
    <3>1. CASE d = c
      <4>1. [op[c] EXCEPT !.pc = "count"] \in CallRecord
        BY <1>4 DEF CallRecord
      <4>2. [op[c] EXCEPT !.pc = "count"].pc = "count" /\ [op[c] EXCEPT !.pc = "count"].id = op[c].id
        BY <1>4 DEF CallRecord
      <4> QED
        BY <1>1, <1>4, <1>6, <3>1, <4>1, <4>2, CallFacts
    <3>2. CASE d # c /\ op[d].pc \in {"verify", "commit"} /\ op[d].id = op[c].id
      <4>1. op[d] \in CallRecord
        BY <1>1, <3>2, CallFacts DEF Idle
      <4>2. /\ [op[d] EXCEPT !.fresh = FALSE] \in CallRecord
            /\ [op[d] EXCEPT !.fresh = FALSE].pc = op[d].pc
            /\ [op[d] EXCEPT !.fresh = FALSE].id = op[d].id
        BY <4>1 DEF CallRecord
      <4>3. op'[d] = [op[d] EXCEPT !.fresh = FALSE]
        BY <1>6, <3>2
      <4> QED
        BY <1>1, <1>4, <3>2, <4>2, <4>3, CallFacts
    <3>3. CASE d # c /\ ~(op[d].pc \in {"verify", "commit"} /\ op[d].id = op[c].id)
      <4>1. op'[d] = op[d]
        BY <1>6, <3>3
      <4> QED
        BY <1>1, <4>1 DEF TypeOK, CallsNameCreated, Idle
    <3> QED
      BY <3>1, <3>2, <3>3
  <2>3. op' \in [Channels -> OpRecord] /\ CallsNameCreated'
    BY <1>3, <1>6, <2>2 DEF CallsNameCreated, Idle
  <2>4. ClosesTracked'
    BY <1>3, <2>1, <2>2 DEF IInv, ClosesTracked
  <2> QED
    BY <1>2, <1>3, <2>1, <2>3, <2>4, OnlySessions
<1> QED
  BY <1>5, <1>6 DEF ActivateCommit

LEMMA ActivateCountPreserves ==
    ASSUME IInv, NEW c \in Channels, ActivateCount(c), calls' \in 0..MaxCalls
    PROVE  IInv'
<1> DEFINE s == op[c].id
           e == [id |-> s, due |-> TimeLeft(s)]
<1>1. TypeOK /\ CallsNameCreated
  BY DEF IInv
<1>2. /\ op[c].pc = "count"
      /\ counter' = Decremented(counter, op[c].prev)
      /\ expiryHeap' = expiryHeap \union {e}
      /\ op' = [op EXCEPT ![c] = NoOp]
      /\ UNCHANGED <<created, sessions, tokens, senders, unactHeap, ses, actor, serving,
                     monitor, skipped, hit>>
  BY DEF ActivateCount
<1>3. s \in 1..created
  BY <1>1, <1>2 DEF CallsNameCreated, Idle
<1>4. e.id = s /\ e.due = Left(ses[s]) /\ e \in [id : 1..created, due : 0..MaxTimeout]
  BY <1>1, <1>3, TimeLeftIs, LeftFacts
<1> HIDE DEF e
<1>5. /\ op' \in [Channels -> OpRecord] /\ CallsNameCreated' /\ op'[c] = NoOp
      /\ \A d \in Channels \ {c} : op'[d] = op[d]
  BY <1>1, <1>2, CallMoves
<1>6. TypeOK'
  BY <1>1, <1>2, <1>4, <1>5, DecrementedType DEF TypeOK
<1>7. ClosesTracked'
  BY <1>1, <1>2, <1>5, CallFacts DEF IInv, ClosesTracked
<1>8. TokensNameSessions' /\ EvictionCovers' /\ ListedWhileExpiring'
  BY <1>2 DEF IInv, TokensNameSessions, EvictionCovers, ListedWhileExpiring
<1>9. HeapCoversSessions'
  <2>1. \A t \in sessions' : DueIn(ses[t]) <= DueIn(ses'[t])
    <3> TAKE t \in sessions'
    <3>1. ses[t] \in SessionRecord
      BY <1>1, <1>2 DEF TypeOK
    <3>2. DueIn(ses[t]) \in Nat
      BY <3>1, LeftFacts
    <3> QED
      BY <1>2, <3>2
  <2> QED
    BY <1>2, <1>6, <2>1, HeapKept
\* The entry of the activated session comes due after one that the heap holds.
<1>10. AlarmInTime'
  <2> SUFFICES ASSUME monitor.pc # "scan", ~monitor.notified, s \in sessions \ monitor.expired,
                      <<"expiry", s>> \notin skipped
               PROVE  monitor.wake <= e.due
    BY <1>2, <1>4 DEF IInv, AlarmInTime
  <2>1. Covered
    BY <1>1, CoveredIs DEF IInv
  <2>2. PICK f \in expiryHeap : f.id = s /\ f.due <= DueIn(ses[s])
    BY <2>1 DEF Covered
  <2>3. monitor.wake <= f.due
    BY <2>2 DEF IInv, AlarmInTime
  <2>4. ses[s] \in SessionRecord /\ f.due \in Nat /\ monitor.wake \in Nat
    BY <1>1, <1>3 DEF TypeOK
  <2>5. DueIn(ses[s]) <= Left(ses[s]) /\ DueIn(ses[s]) \in Nat /\ Left(ses[s]) \in Nat
    BY <2>4, LeftFacts
  <2> QED
    BY <1>4, <2>2, <2>3, <2>4, <2>5
<1> QED
  BY <1>5, <1>6, <1>7, <1>8, <1>9, <1>10 DEF IInv

\* The actor closes its session, whatever becomes of the call that waits for it.
LEMMA ActorClosesFacts ==
    ASSUME IInv, NEW s \in 1..created, ActorCloses(s)
    PROVE  /\ created' = created /\ tokens' = tokens /\ sessions' = sessions
           /\ serving' \subseteq 1..created /\ hit' \in BOOLEAN
           /\ ses' \in [1..created -> SessionRecord]
           /\ actor' \in [1..created -> {"running", "closing", "ended"}]
           /\ actor[s] = "running" /\ actor'[s] = "closing"
           /\ \A t \in (1..created) \ {s} : actor'[t] = actor[t]
           /\ \A t \in 1..created : actor'[t] = "closing" => ses'[t].closed
           /\ \A t \in 1..created :
                /\ ses'[t].user = ses[t].user /\ (ses[t].closed => ses'[t].closed)
                /\ ses'[t].idle <= ses[t].idle /\ ses'[t].age = ses[t].age
<1>1. TypeOK
  BY DEF IInv
<1>2. /\ actor[s] = "running" /\ actor' = [actor EXCEPT ![s] = "closing"]
      /\ ses' = [ses EXCEPT ![s].closed = TRUE]
      /\ UNCHANGED <<created, tokens, sessions, serving, hit>>
  BY DEF ActorCloses, indexVars
<1>3. /\ actor' \in [1..created -> {"running", "closing", "ended"}] /\ actor'[s] = "closing"
      /\ \A t \in (1..created) \ {s} : actor'[t] = actor[t]
      /\ serving' \subseteq 1..created /\ hit' \in BOOLEAN
  BY <1>1, <1>2 DEF TypeOK
<1>4. /\ ses' \in [1..created -> SessionRecord] /\ ses'[s].closed
      /\ \A t \in 1..created :
           /\ ses'[t].user = ses[t].user /\ (ses[t].closed => ses'[t].closed)
           /\ ses'[t].idle <= ses[t].idle /\ ses'[t].age = ses[t].age
  BY <1>1, <1>2, SessionClosed
<1>5. \A t \in 1..created : actor'[t] = "closing" => ses'[t].closed
  BY <1>3, <1>4 DEF IInv, ClosesTracked
<1> QED
  BY <1>2, <1>3, <1>4, <1>5

LEMMA ActorTerminatesPreserves ==
    ASSUME IInv, NEW s \in 1..created, NEW c \in Channels, ActorTerminates(s, c), calls' \in 0..MaxCalls
    PROVE  IInv'
<1> DEFINE r == [op[c] EXCEPT !.pc = "terminating"]
<1>1. TypeOK /\ CallsNameCreated
  BY DEF IInv
<1>2. /\ op[c].pc = "terminate" /\ op[c].id = s /\ op' = [op EXCEPT ![c] = r]
      /\ ActorCloses(s) /\ UNCHANGED <<indexVars, monitor, skipped>>
  BY DEF ActorTerminates, Waiting, ActorCloses
<1>3. op[c] \in CallRecord
  BY <1>1, <1>2, CallFacts DEF Idle
<1>4. r \in CallRecord /\ r.id = s /\ r.pc = "terminating"
  BY <1>2, <1>3 DEF CallRecord
<1> HIDE DEF r
<1>5. /\ op' \in [Channels -> OpRecord] /\ CallsNameCreated' /\ op'[c] = r
      /\ \A d \in Channels \ {c} : op'[d] = op[d]
  BY <1>1, <1>2, <1>4, CallMoves DEF indexVars
<1>6. ClosesTracked'
  <2>1. ASSUME NEW d \in Channels, op'[d].pc = "terminating" PROVE actor'[op'[d].id] = "closing"
    <3>1. CASE d = c
      BY <1>2, <1>4, <1>5, <3>1, ActorClosesFacts
    <3>2. CASE d # c
      <4>1. actor[op[d].id] = "closing" /\ op[d].id \in 1..created
        BY <1>5, <2>1, <3>2 DEF IInv, ClosesTracked, CallsNameCreated, Idle
      <4> QED
        BY <1>2, <1>5, <3>2, <4>1, ActorClosesFacts
    <3> QED
      BY <3>1, <3>2
  <2>2. \A d \in Channels : op'[d].pc = "closed" => op'[d].id \notin tokens'
    BY <1>2, <1>4, <1>5, ActorClosesFacts DEF IInv, ClosesTracked
  <2>3. \A t \in 1..created' : actor'[t] = "closing" => ses'[t].closed
    BY <1>2, ActorClosesFacts
  <2> QED
    BY <2>1, <2>2, <2>3 DEF ClosesTracked
<1>7. \A t \in sessions \ tokens : actor[t] = "ended" => actor'[t] = "ended"
  BY <1>1, <1>2, ActorClosesFacts DEF TypeOK
<1> QED
  BY <1>2, <1>5, <1>6, <1>7, ActorClosesFacts, OnlySessions

LEMMA ActorPanicsPreserves ==
    ASSUME IInv, NEW s \in 1..created, ActorPanics(s), calls' \in 0..MaxCalls
    PROVE  IInv'
<1>1. TypeOK /\ CallsNameCreated
  BY DEF IInv
<1>2. op' = op /\ ActorCloses(s) /\ UNCHANGED <<indexVars, monitor, skipped>>
  BY DEF ActorPanics, ActorCloses
<1>3. op' \in [Channels -> OpRecord] /\ CallsNameCreated'
  BY <1>1, <1>2 DEF TypeOK, CallsNameCreated, Idle, indexVars
<1>4. ClosesTracked'
  <2>1. ASSUME NEW d \in Channels, op[d].pc = "terminating" PROVE actor'[op[d].id] = "closing"
    <3>1. actor[op[d].id] = "closing" /\ op[d].id \in 1..created
      BY <2>1 DEF IInv, ClosesTracked, CallsNameCreated, Idle
    <3> QED
      BY <1>2, <3>1, ActorClosesFacts
  <2>2. \A t \in 1..created' : actor'[t] = "closing" => ses'[t].closed
    BY <1>2, ActorClosesFacts
  <2> QED
    BY <1>2, <2>1, <2>2, ActorClosesFacts DEF IInv, ClosesTracked
<1>5. \A t \in sessions \ tokens : actor[t] = "ended" => actor'[t] = "ended"
  BY <1>1, <1>2, ActorClosesFacts DEF TypeOK
<1> QED
  BY <1>2, <1>3, <1>4, <1>5, ActorClosesFacts, OnlySessions

LEMMA ActorDroppedPreserves ==
    ASSUME IInv, NEW s \in 1..created, ActorDropped(s), calls' \in 0..MaxCalls
    PROVE  IInv'
<1>1. TypeOK /\ CallsNameCreated
  BY DEF IInv
<1>2. /\ actor[s] = "running" /\ actor' = [actor EXCEPT ![s] = "ended"]
      /\ ses' = [ses EXCEPT ![s].closed = TRUE]
      /\ UNCHANGED <<indexVars, op, serving, monitor, skipped, hit>>
  BY DEF ActorDropped
<1>3. /\ actor' \in [1..created -> {"running", "closing", "ended"}] /\ actor'[s] = "ended"
      /\ \A t \in (1..created) \ {s} : actor'[t] = actor[t]
      /\ serving' \subseteq 1..created /\ hit' \in BOOLEAN /\ op' \in [Channels -> OpRecord]
  BY <1>1, <1>2 DEF TypeOK
<1>4. /\ ses' \in [1..created -> SessionRecord] /\ ses'[s].closed
      /\ \A t \in 1..created :
           /\ ses'[t].user = ses[t].user /\ (ses[t].closed => ses'[t].closed)
           /\ ses'[t].idle <= ses[t].idle /\ ses'[t].age = ses[t].age
  BY <1>1, <1>2, SessionClosed
<1>5. CallsNameCreated'
  BY <1>1, <1>2 DEF CallsNameCreated, Idle, indexVars
<1>6. ClosesTracked'
  <2>1. \A d \in Channels : op[d].pc = "terminating" => op[d].id \in (1..created) \ {s}
    BY <1>2 DEF IInv, ClosesTracked, CallsNameCreated, Idle
  <2> QED
    BY <1>2, <1>3, <1>4, <2>1 DEF IInv, ClosesTracked, indexVars
<1>7. \A t \in sessions \ tokens : actor[t] = "ended" => actor'[t] = "ended"
  BY <1>1, <1>3 DEF TypeOK
<1> QED
  BY <1>2, <1>3, <1>4, <1>5, <1>6, <1>7, OnlySessions

LEMMA ServicePreserves ==
    ASSUME IInv, NEW c \in Channels, NEW s \in 1..created, Service(c, s), calls' \in 0..MaxCalls
    PROVE  IInv'
<1>1. TypeOK /\ CallsNameCreated
  BY DEF IInv
<1>2. /\ ses' = [ses EXCEPT ![s].idle = 0] /\ serving' \subseteq 1..created
      /\ UNCHANGED <<indexVars, actor, op, monitor, skipped, hit>>
  BY <1>1 DEF Service, Touched, TypeOK
<1>3. /\ ses' \in [1..created -> SessionRecord]
      /\ \A t \in 1..created :
           /\ ses'[t].user = ses[t].user /\ ses'[t].closed = ses[t].closed
           /\ ses'[t].idle <= ses[t].idle /\ ses'[t].age = ses[t].age
  BY <1>1, <1>2, SessionTouched
<1>4. CallsNameCreated' /\ ClosesTracked'
  BY <1>2, <1>3 DEF IInv, CallsNameCreated, Idle, ClosesTracked, indexVars
<1>5. /\ actor' = actor /\ op' \in [Channels -> OpRecord] /\ hit' \in BOOLEAN
      /\ actor' \in [1..created -> {"running", "closing", "ended"}]
  BY <1>1, <1>2 DEF TypeOK
<1> QED
  BY <1>2, <1>3, <1>4, <1>5, OnlySessions

LEMMA ServiceEndPreserves ==
    ASSUME IInv, NEW s \in 1..created, ServiceEnd(s), calls' \in 0..MaxCalls
    PROVE  IInv'
<1>1. /\ serving' \subseteq 1..created /\ op' = op /\ op' \in [Channels -> OpRecord]
      /\ UNCHANGED <<indexVars, ses, actor, monitor, skipped, hit>>
  BY DEF IInv, TypeOK, ServiceEnd
<1>2. CallsNameCreated' /\ ClosesTracked'
  BY <1>1 DEF IInv, CallsNameCreated, Idle, ClosesTracked, indexVars
<1> QED
  BY <1>1, <1>2, OnlyCalls

\* The deadlines stand still while the sessions do.
LEMMA SameDue ==
    ASSUME TypeOK, ses' = ses
    PROVE  \A t \in sessions : DueIn(ses[t]) <= DueIn(ses'[t])
<1> TAKE t \in sessions
<1>1. ses[t] \in SessionRecord
  BY DEF TypeOK
<1>2. DueIn(ses[t]) \in Nat
  BY <1>1, LeftFacts
<1> QED
  BY <1>2

LEMMA ActorCleanupPreserves ==
    ASSUME IInv, NEW s \in 1..created, ActorCleanup(s), calls' \in 0..MaxCalls
    PROVE  IInv'
<1>1. TypeOK /\ CallsNameCreated
  BY DEF IInv
<1>2. /\ actor[s] = "closing" /\ actor' = [actor EXCEPT ![s] = "ended"]
      /\ tokens' = tokens \ {s} /\ senders' = senders \ {s}
      /\ op' = [c \in Channels |->
           IF op[c].pc = "terminating" /\ op[c].id = s THEN [op[c] EXCEPT !.pc = "closed"]
           ELSE IF Waiting(c, s) THEN NoOp ELSE op[c]]
      /\ UNCHANGED <<created, sessions, counter, expiryHeap, unactHeap, ses, serving, monitor,
                     skipped, hit>>
  BY DEF ActorCleanup
<1>3. /\ actor' \in [1..created -> {"running", "closing", "ended"}] /\ actor'[s] = "ended"
      /\ \A t \in (1..created) \ {s} : actor'[t] = actor[t]
  BY <1>1, <1>2 DEF TypeOK
<1>4. ASSUME NEW d \in Channels
      PROVE  /\ op'[d] \in OpRecord
             /\ op'[d].pc # "idle" => op'[d].id \in 1..created
             /\ op'[d].pc = "terminating" => op'[d] = op[d] /\ op[d].id # s
             /\ op'[d].pc = "closed" => op'[d].id \notin tokens'
  <2>1. CASE op[d].pc = "terminating" /\ op[d].id = s
    <3>1. op[d] \in CallRecord
      BY <1>1, <2>1, CallFacts DEF Idle
    <3>2. /\ [op[d] EXCEPT !.pc = "closed"] \in CallRecord
          /\ [op[d] EXCEPT !.pc = "closed"].pc = "closed" /\ [op[d] EXCEPT !.pc = "closed"].id = s
      BY <2>1, <3>1 DEF CallRecord
    <3>3. op'[d] = [op[d] EXCEPT !.pc = "closed"]
      BY <1>2, <2>1
    <3> QED
      BY <1>1, <1>2, <3>2, <3>3, CallFacts
  <2>2. CASE ~(op[d].pc = "terminating" /\ op[d].id = s) /\ Waiting(d, s)
    <3>1. op'[d] = NoOp
      BY <1>2, <2>2
    <3> QED
      BY <1>1, <3>1, CallFacts
  <2>3. CASE ~(op[d].pc = "terminating" /\ op[d].id = s) /\ ~Waiting(d, s)
    <3>1. op'[d] = op[d]
      BY <1>2, <2>3
    <3>2. op[d].pc = "closed" => op[d].id \notin tokens
      BY DEF IInv, ClosesTracked
    <3> QED
      BY <1>1, <1>2, <2>3, <3>1, <3>2 DEF TypeOK, CallsNameCreated, Idle
  <2> QED
    BY <2>1, <2>2, <2>3
<1>5. op' \in [Channels -> OpRecord] /\ CallsNameCreated'
  BY <1>2, <1>4 DEF CallsNameCreated, Idle
<1>6. TypeOK'
  BY <1>1, <1>2, <1>3, <1>5 DEF TypeOK
<1>7. ClosesTracked'
  <2>1. \A d \in Channels : op'[d].pc = "terminating" => actor'[op'[d].id] = "closing"
    BY <1>3, <1>4 DEF IInv, ClosesTracked, CallsNameCreated, Idle
  <2>2. \A t \in 1..created : actor'[t] = "closing" => ses[t].closed
    BY <1>3 DEF IInv, ClosesTracked
  <2> QED
    BY <1>2, <1>4, <2>1, <2>2 DEF ClosesTracked
<1>8. TokensNameSessions'
  <2>1. \A t \in sessions \ tokens' : ses[t].closed /\ actor'[t] = "ended"
    <3> TAKE t \in sessions \ tokens'
    <3>1. CASE t = s
      BY <1>2, <1>3, <3>1 DEF IInv, ClosesTracked
    <3>2. CASE t # s
      BY <1>1, <1>2, <1>3, <3>2 DEF IInv, TypeOK, TokensNameSessions
    <3> QED
      BY <3>1, <3>2
  <2> QED
    BY <1>2, <2>1 DEF IInv, TokensNameSessions
<1>9. EvictionCovers'
  BY <1>2 DEF IInv, EvictionCovers
<1>10. HeapCoversSessions'
  BY <1>1, <1>2, <1>6, SameDue, HeapKept
<1>11. AlarmInTime' /\ ListedWhileExpiring'
  BY <1>2, AlarmKept
<1> QED
  BY <1>5, <1>6, <1>7, <1>8, <1>9, <1>10, <1>11 DEF IInv

LEMMA CloseFinishPreserves ==
    ASSUME IInv, NEW c \in Channels, CloseFinish(c), calls' \in 0..MaxCalls
    PROVE  IInv'
<1>1. TypeOK /\ CallsNameCreated
  BY DEF IInv
<1>2. /\ op[c].pc = "closed"
      /\ counter' = (IF op[c].was THEN Decremented(counter, op[c].prev) ELSE counter)
      /\ sessions' = sessions \ {op[c].id}
      /\ op' = [op EXCEPT ![c] = NoOp]
      /\ UNCHANGED <<created, tokens, senders, expiryHeap, unactHeap, ses, actor, serving,
                     monitor, skipped, hit>>
  BY DEF CloseFinish
<1>3. /\ op' \in [Channels -> OpRecord] /\ CallsNameCreated' /\ op'[c] = NoOp
      /\ \A d \in Channels \ {c} : op'[d] = op[d]
  BY <1>1, <1>2, CallMoves
<1>4. counter' \in [Channels -> 0..(CounterMod - 1)]
  BY <1>1, <1>2, DecrementedType DEF TypeOK
<1>5. TypeOK'
  BY <1>1, <1>2, <1>3, <1>4 DEF TypeOK
<1>6. ClosesTracked'
  BY <1>1, <1>2, <1>3, CallFacts DEF IInv, ClosesTracked
<1>7. TokensNameSessions'
  BY <1>2 DEF IInv, TokensNameSessions, ClosesTracked
<1>8. EvictionCovers'
  BY <1>2 DEF IInv, EvictionCovers
<1>9. HeapCoversSessions'
  BY <1>1, <1>2, <1>5, SameDue, HeapKept
<1>10. AlarmInTime' /\ ListedWhileExpiring'
  BY <1>2, AlarmKept
<1> QED
  BY <1>3, <1>5, <1>6, <1>7, <1>8, <1>9, <1>10 DEF IInv

\* What the scan leaves in the heap, and until when the task sleeps after it.
LEMMA ScanFacts ==
    ASSUME IInv, Scan
    PROVE  /\ expiryHeap' \subseteq [id : 1..created, due : 0..MaxTimeout]
           /\ ExpiredNow \subseteq 1..created /\ SkippedByScan \subseteq 1..created
           /\ monitor'.wake \in 0..MaxTimeout
           /\ \A e \in expiryHeap' : monitor'.wake <= e.due
<1> DEFINE dues == {MaxTimeout} \union {e.due : e \in HeapAfterScan}
<1>1. TypeOK
  BY DEF IInv
<1>2. DueNow \subseteq 1..created /\ ExpiredNow \subseteq 1..created /\ SkippedByScan \subseteq 1..created
  BY <1>1 DEF TypeOK, DueNow, ExpiredNow, SkippedByScan
<1>3. \A s \in 1..created : ExpiryTimeLeft(s) \in 0..MaxTimeout
  BY <1>1, TimeLeftIs, LeftFacts
<1>4. HeapAfterScan \subseteq [id : 1..created, due : 0..MaxTimeout]
  BY <1>1, <1>2, <1>3 DEF HeapAfterScan, TypeOK
<1>5. dues \subseteq 0..MaxTimeout /\ dues # {} /\ 0..MaxTimeout \subseteq Nat
  BY <1>4, SessionManagerAssumption
<1>6. LeastOf(dues) \in dues /\ \A y \in dues : LeastOf(dues) <= y
  BY <1>5, LeastOfNat
<1>7. expiryHeap' = HeapAfterScan /\ monitor'.wake = LeastOf(dues)
  BY DEF Scan
<1> QED
  BY <1>2, <1>4, <1>5, <1>6, <1>7

LEMMA ScanPreserves ==
    ASSUME IInv, Scan, calls' \in 0..MaxCalls
    PROVE  IInv'
<1>1. TypeOK
  BY DEF IInv
<1>2. /\ monitor.pc = "scan" /\ expiryHeap' = HeapAfterScan
      /\ monitor'.pc = (IF ExpiredNow = {} THEN "sleep" ELSE "expire")
      /\ monitor'.expired = ExpiredNow /\ monitor'.notified = FALSE
      /\ monitor' = [pc |-> monitor'.pc, expired |-> monitor'.expired, wake |-> monitor'.wake,
                     notified |-> monitor'.notified]
      /\ skipped' = skipped \union ({"expiry"} \X SkippedByScan)
      /\ UNCHANGED <<created, sessions, tokens, senders, counter, unactHeap, ses, actor, op,
                     serving, hit>>
  BY DEF Scan
<1>3. TypeOK'
  <2>1. monitor' \in [pc : {"scan", "expire", "sleep"}, expired : SUBSET (1..created),
                      wake : 0..MaxTimeout, notified : BOOLEAN]
    BY <1>2, ScanFacts
  <2>2. skipped' \subseteq {"expiry", "evict"} \X (1..created)
    BY <1>1, <1>2, ScanFacts DEF TypeOK
  <2> QED
    BY <1>1, <1>2, <2>1, <2>2, ScanFacts DEF TypeOK
<1>4. CallsNameCreated' /\ ClosesTracked' /\ TokensNameSessions'
  BY <1>2 DEF IInv, CallsNameCreated, Idle, ClosesTracked, TokensNameSessions
<1>5. EvictionCovers' /\ ListedWhileExpiring'
  BY <1>2 DEF IInv, EvictionCovers, ListedWhileExpiring
<1>6. AlarmInTime'
  BY ScanFacts DEF AlarmInTime
<1>7. HeapCoversSessions'
  <2>1. Covered /\ monitor.expired = {}
    BY <1>1, <1>2, CoveredIs DEF IInv, ListedWhileExpiring
  <2>2. ASSUME NEW s \in sessions, <<"expiry", s>> \notin skipped', s \notin ExpiredNow
        PROVE  \E e \in expiryHeap' : e.id = s /\ e.due <= DueIn(ses[s])
    <3>1. PICK e \in expiryHeap : e.id = s /\ e.due <= DueIn(ses[s])
      BY <1>2, <2>1, <2>2 DEF Covered
    <3>2. s \in 1..created /\ ses[s] \in SessionRecord /\ e.due \in Nat
      BY <1>1 DEF TypeOK
    <3>3. CASE e.due > 0
      BY <1>2, <3>1, <3>3 DEF HeapAfterScan
    <3>4. CASE e.due = 0
      <4> DEFINE f == [id |-> s, due |-> ExpiryTimeLeft(s)]
      <4>1. s \in DueNow
        BY <3>1, <3>4 DEF DueNow
      <4>2. s \notin Locked
        BY <1>2, <2>2, <4>1 DEF SkippedByScan
      <4>3. f \in expiryHeap'
        BY <1>2, <2>2, <4>1, <4>2 DEF HeapAfterScan
      <4>4. ExpiryTimeLeft(s) <= DueIn(ses[s])
        <5>1. ExpiryTimeLeft(s) = IF IsActivated(s) THEN Left(ses[s]) ELSE UnactivatedLeft(ses[s])
          BY <1>1, <3>2, TimeLeftIs
        <5>2. UnactivatedLeft(ses[s]) <= DueIn(ses[s]) /\ DueIn(ses[s]) \in Nat
          BY <3>2, LeftFacts
        <5>3. IsActivated(s) => DueIn(ses[s]) = Left(ses[s])
          BY DEF IsActivated, DueIn
        <5> QED
          BY <5>1, <5>2, <5>3
      <4>5. f.id = s /\ f.due = ExpiryTimeLeft(s)
        OBVIOUS
      <4> HIDE DEF f
      <4> QED
        BY <4>3, <4>4, <4>5
    <3> QED
      BY <3>2, <3>3, <3>4
  <2> QED
    BY <1>2, <1>3, <2>2, CoveredIsPrimed DEF Covered
<1> QED
  BY <1>3, <1>4, <1>5, <1>6, <1>7 DEF IInv

LEMMA ExpireSessionsPreserves ==
    ASSUME IInv, ExpireSessions, calls' \in 0..MaxCalls
    PROVE  IInv'
<1> DEFINE gone == monitor.expired \intersect sessions
           cnt(c) == counter[c] - Cardinality(Unactivated(gone, c))
<1>1. TypeOK
  BY DEF IInv
<1>2. /\ monitor.pc = "expire" /\ sessions' = sessions \ gone /\ tokens' = tokens \ gone
      /\ senders' = senders \ gone /\ counter' = [c \in Channels |-> cnt(c) % CounterMod]
      /\ ses' = AllClosed(gone) /\ hit' \in BOOLEAN
      /\ monitor' = [monitor EXCEPT !.pc = "sleep", !.expired = {}]
      /\ UNCHANGED <<created, expiryHeap, unactHeap, actor, op, serving, skipped>>
  BY <1>1 DEF ExpireSessions, TypeOK
<1>3. gone \subseteq 1..created /\ created \in Nat
  BY <1>1 DEF TypeOK
<1>4. counter' \in [Channels -> 0..(CounterMod - 1)]
  <2>1. IsFiniteSet(1..created)
    BY <1>3, FS_Interval
  <2>2. \A S \in SUBSET (1..created) : Cardinality(S) \in Nat
    BY <2>1, FS_Subset, FS_CardinalityType
  <2>3. ASSUME NEW c \in Channels PROVE cnt(c) \in Int
    <3>1. Unactivated(gone, c) \subseteq 1..created
      BY <1>3 DEF Unactivated
    <3>2. Cardinality(Unactivated(gone, c)) \in Nat
      BY <2>2, <3>1
    <3>3. counter[c] \in Int
      BY <1>1, SessionManagerAssumption DEF TypeOK
    <3> QED
      BY <3>2, <3>3
  <2>4. \A k \in Int : k % CounterMod \in 0..(CounterMod - 1)
    BY SessionManagerAssumption
  <2> HIDE DEF cnt
  <2>5. \A c \in Channels : cnt(c) % CounterMod \in 0..(CounterMod - 1)
    BY <2>3, <2>4
  <2> QED
    BY <1>2, <2>5
<1> HIDE DEF gone
<1>5. \A s \in 1..created :
        /\ ses'[s] \in SessionRecord /\ ses'[s].user = ses[s].user
        /\ ses[s].closed => ses'[s].closed
        /\ ses'[s].idle = ses[s].idle /\ ses'[s].age = ses[s].age
  <2> TAKE s \in 1..created
  <2>1. ses[s] \in SessionRecord
    BY <1>1 DEF TypeOK
  <2> QED
    BY <1>2, <2>1 DEF AllClosed, SessionRecord
<1>6. ses' \in [1..created -> SessionRecord]
  BY <1>2, <1>5 DEF AllClosed
<1>7. /\ monitor' \in [pc : {"scan", "expire", "sleep"}, expired : SUBSET (1..created),
                       wake : 0..MaxTimeout, notified : BOOLEAN]
      /\ monitor'.pc = "sleep" /\ monitor'.expired = {} /\ monitor'.wake = monitor.wake
      /\ monitor'.notified = monitor.notified
  BY <1>1, <1>2 DEF TypeOK
<1>8. TypeOK'
  BY <1>1, <1>2, <1>4, <1>6, <1>7 DEF TypeOK
<1>9. CallsNameCreated'
  BY <1>2 DEF IInv, CallsNameCreated, Idle
<1>10. ClosesTracked'
  BY <1>2, <1>5 DEF IInv, ClosesTracked
<1>11. TokensNameSessions'
  <2>1. \A s \in sessions' \ tokens' : s \in sessions \ tokens /\ s \in 1..created
    BY <1>1, <1>2 DEF TypeOK
  <2> QED
    BY <1>2, <1>5, <2>1 DEF IInv, TokensNameSessions
<1>12. \A s \in sessions' : s \in sessions /\ s \in 1..created /\ s \notin monitor.expired
  BY <1>1, <1>2 DEF TypeOK, gone
<1>13. EvictionCovers'
  BY <1>2, <1>5, <1>12 DEF IInv, EvictionCovers
<1>14. ListedWhileExpiring'
  BY <1>7 DEF ListedWhileExpiring
<1>15. AlarmInTime'
  BY <1>2, <1>7, <1>12 DEF IInv, AlarmInTime
<1>16. HeapCoversSessions'
  <2>1. Covered
    BY <1>1, CoveredIs DEF IInv
  <2>2. \A s \in sessions' : DueIn(ses'[s]) = DueIn(ses[s])
    BY <1>5, <1>12 DEF DueIn, UnactivatedLeft, Left
  <2>3. Covered'
    BY <1>2, <1>12, <2>1, <2>2 DEF Covered
  <2> QED
    BY <1>8, <2>3, CoveredIsPrimed
<1> QED
  BY <1>8, <1>9, <1>10, <1>11, <1>13, <1>14, <1>15, <1>16 DEF IInv

LEMMA WakePreserves ==
    ASSUME IInv, Wake, calls' \in 0..MaxCalls
    PROVE  IInv'
<1>1. TypeOK
  BY DEF IInv
<1>2. /\ monitor.pc = "sleep" /\ monitor' = [monitor EXCEPT !.pc = "scan"]
      /\ UNCHANGED <<created, sessions, tokens, senders, counter, expiryHeap, unactHeap,
                     ses, actor, op, serving, skipped, hit>>
  BY DEF Wake, indexVars
<1>3. /\ monitor' \in [pc : {"scan", "expire", "sleep"}, expired : SUBSET (1..created),
                       wake : 0..MaxTimeout, notified : BOOLEAN]
      /\ monitor'.pc = "scan" /\ monitor'.expired = monitor.expired
  BY <1>1, <1>2 DEF TypeOK
<1>4. TypeOK'
  BY <1>1, <1>2, <1>3 DEF TypeOK
<1>5. CallsNameCreated' /\ ClosesTracked' /\ TokensNameSessions' /\ EvictionCovers'
  BY <1>2 DEF IInv, CallsNameCreated, Idle, ClosesTracked, TokensNameSessions, EvictionCovers
<1>6. ListedWhileExpiring' /\ AlarmInTime'
  BY <1>2, <1>3 DEF IInv, ListedWhileExpiring, AlarmInTime
<1>7. HeapCoversSessions'
  BY <1>1, <1>2, <1>3, <1>4, SameDue, HeapKept
<1> QED
  BY <1>4, <1>5, <1>6, <1>7 DEF IInv

\* A tick takes at most one from the time a session has left.
LEMMA TickDue ==
    ASSUME NEW r \in SessionRecord, NEW q,
           q = [r EXCEPT !.idle = LeastOf({@ + 1, Timeout + 1}),
                         !.age = LeastOf({@ + 1, UnactivatedTimeout})]
    PROVE  /\ q \in SessionRecord /\ q.user = r.user /\ q.closed = r.closed
           /\ DueIn(r) - 1 <= DueIn(q)
<1>1. r.idle \in Nat /\ r.idle <= Timeout + 1 /\ r.age \in Nat /\ r.age <= UnactivatedTimeout
  BY SessionManagerAssumption DEF SessionRecord
<1>2. /\ LeastOf({r.idle + 1, Timeout + 1}) = (IF r.idle <= Timeout THEN r.idle + 1 ELSE Timeout + 1)
      /\ LeastOf({r.age + 1, UnactivatedTimeout}) =
           (IF r.age + 1 <= UnactivatedTimeout THEN r.age + 1 ELSE UnactivatedTimeout)
  <2>1. r.idle + 1 \in Nat /\ Timeout + 1 \in Nat /\ r.age + 1 \in Nat /\ UnactivatedTimeout \in Nat
    BY <1>1, SessionManagerAssumption
  <2>2. /\ LeastOf({r.idle + 1, Timeout + 1}) =
             (IF r.idle + 1 <= Timeout + 1 THEN r.idle + 1 ELSE Timeout + 1)
        /\ LeastOf({r.age + 1, UnactivatedTimeout}) =
             (IF r.age + 1 <= UnactivatedTimeout THEN r.age + 1 ELSE UnactivatedTimeout)
    BY <2>1, LeastOfTwo
  <2> QED
    BY <1>1, <2>2, SessionManagerAssumption
<1>3. /\ q.idle = (IF r.idle <= Timeout THEN r.idle + 1 ELSE Timeout + 1)
      /\ q.age = (IF r.age + 1 <= UnactivatedTimeout THEN r.age + 1 ELSE UnactivatedTimeout)
      /\ q.user = r.user /\ q.closed = r.closed
  BY <1>2 DEF SessionRecord
<1>4. q \in SessionRecord
  <2>1. /\ LeastOf({r.idle + 1, Timeout + 1}) \in 0..(Timeout + 1)
        /\ LeastOf({r.age + 1, UnactivatedTimeout}) \in 0..UnactivatedTimeout
    BY <1>1, <1>2, SessionManagerAssumption
  <2> QED
    BY <2>1 DEF SessionRecord
<1>5. Left(r) - 1 <= Left(q)
  BY <1>1, <1>3, SessionManagerAssumption DEF Left
<1>6. UnactivatedLeft(r) - 1 <= UnactivatedLeft(q)
  <2>1. (UnactivatedTimeout - r.age) - 1 <= UnactivatedTimeout - q.age
        /\ UnactivatedTimeout - r.age \in Int /\ UnactivatedTimeout - q.age \in Int
    BY <1>1, <1>3, SessionManagerAssumption
  <2>2. Left(r) \in Nat /\ Left(q) \in Nat
    BY <1>4, LeftFacts
  <2> QED
    BY <1>5, <2>1, <2>2 DEF UnactivatedLeft
<1>7. DueIn(r) - 1 <= DueIn(q)
  BY <1>3, <1>5, <1>6 DEF DueIn
<1> QED
  BY <1>3, <1>4, <1>7

LEMMA TickPreserves ==
    ASSUME IInv, Tick, calls' \in 0..MaxCalls
    PROVE  IInv'
<1>1. TypeOK
  BY DEF IInv
<1>2. /\ ses' = [s \in 1..created |->
           IF s \notin sessions /\ ~InCall(s) THEN ses[s] ELSE
           [ses[s] EXCEPT !.idle = LeastOf({@ + 1, Timeout + 1}),
                          !.age = LeastOf({@ + 1, UnactivatedTimeout})]]
      /\ expiryHeap' = {[e EXCEPT !.due = LessOne(@)] : e \in expiryHeap}
      /\ monitor' = [monitor EXCEPT !.wake = LessOne(@)]
      /\ UNCHANGED <<created, sessions, tokens, senders, counter, unactHeap, actor, op, serving,
                     skipped, hit>>
  BY DEF Tick
<1>3. ASSUME NEW s \in 1..created
      PROVE  /\ ses'[s] \in SessionRecord
             /\ ses'[s].user = ses[s].user /\ ses'[s].closed = ses[s].closed
             /\ DueIn(ses[s]) - 1 <= DueIn(ses'[s])
  <2>1. ses[s] \in SessionRecord
    BY <1>1 DEF TypeOK
  <2>2. CASE ses'[s] = ses[s]
    <3>1. DueIn(ses[s]) \in Nat
      BY <2>1, LeftFacts
    <3> QED
      BY <2>1, <2>2, <3>1
  <2>3. CASE ses'[s] = [ses[s] EXCEPT !.idle = LeastOf({@ + 1, Timeout + 1}),
                                      !.age = LeastOf({@ + 1, UnactivatedTimeout})]
    BY <2>1, <2>3, TickDue
  <2> QED
    BY <1>2, <2>2, <2>3
<1>4. ses' \in [1..created -> SessionRecord]
  BY <1>2, <1>3
<1>5. \A n \in 0..MaxTimeout : LessOne(n) \in 0..MaxTimeout
  BY SessionManagerAssumption DEF LessOne
<1>6. ASSUME NEW e \in expiryHeap
      PROVE  /\ [e EXCEPT !.due = LessOne(@)] \in [id : 1..created, due : 0..MaxTimeout]
             /\ [e EXCEPT !.due = LessOne(@)].id = e.id
             /\ [e EXCEPT !.due = LessOne(@)].due = LessOne(e.due)
             /\ e.due \in Nat
  <2>1. e \in [id : 1..created, due : 0..MaxTimeout]
    BY <1>1 DEF TypeOK
  <2>2. LessOne(e.due) \in 0..MaxTimeout
    BY <1>5, <2>1
  <2> QED
    BY <2>1, <2>2
<1>7. /\ monitor' \in [pc : {"scan", "expire", "sleep"}, expired : SUBSET (1..created),
                       wake : 0..MaxTimeout, notified : BOOLEAN]
      /\ monitor'.pc = monitor.pc /\ monitor'.expired = monitor.expired
      /\ monitor'.notified = monitor.notified /\ monitor'.wake = LessOne(monitor.wake)
      /\ monitor.wake \in Nat
  <2>1. monitor.wake \in 0..MaxTimeout
    BY <1>1 DEF TypeOK
  <2>2. LessOne(monitor.wake) \in 0..MaxTimeout
    BY <1>5, <2>1
  <2>3. monitor.wake \in Nat
    BY <2>1, SessionManagerAssumption
  <2>4. monitor \in [pc : {"scan", "expire", "sleep"}, expired : SUBSET (1..created),
                      wake : 0..MaxTimeout, notified : BOOLEAN]
    BY <1>1 DEF TypeOK
  <2> QED
    BY <1>2, <2>2, <2>3, <2>4
<1>8. TypeOK'
  <2>1. expiryHeap' \subseteq [id : 1..created, due : 0..MaxTimeout]
    BY <1>2, <1>6
  <2> QED
    BY <1>1, <1>2, <1>4, <1>7, <2>1 DEF TypeOK
<1>9. CallsNameCreated' /\ ClosesTracked'
  BY <1>2, <1>3 DEF IInv, CallsNameCreated, Idle, ClosesTracked
<1>10. \A s \in sessions : s \in 1..created
  BY <1>1 DEF TypeOK
<1>11. TokensNameSessions' /\ EvictionCovers'
  BY <1>2, <1>3, <1>10 DEF IInv, TokensNameSessions, EvictionCovers
<1>12. ListedWhileExpiring'
  BY <1>7 DEF IInv, ListedWhileExpiring
<1>13. AlarmInTime'
  <2> SUFFICES ASSUME monitor.pc # "scan", ~monitor.notified, NEW f \in expiryHeap',
                      f.id \in sessions \ monitor.expired, <<"expiry", f.id>> \notin skipped
               PROVE  monitor'.wake <= f.due
    BY <1>2, <1>7 DEF AlarmInTime
  <2>1. PICK e \in expiryHeap : f = [e EXCEPT !.due = LessOne(@)]
    BY <1>2
  <2>2. monitor.wake <= e.due
    BY <1>6, <2>1 DEF IInv, AlarmInTime
  <2> QED
    BY <1>6, <1>7, <2>1, <2>2 DEF LessOne
<1>14. HeapCoversSessions'
  <2>1. Covered
    BY <1>1, CoveredIs DEF IInv
  <2>2. ASSUME NEW s \in sessions, <<"expiry", s>> \notin skipped, s \notin monitor.expired
        PROVE  \E e \in expiryHeap' : e.id = s /\ e.due <= DueIn(ses'[s])
    <3>1. PICK e \in expiryHeap : e.id = s /\ e.due <= DueIn(ses[s])
      BY <2>1, <2>2 DEF Covered
    <3>2. ses[s] \in SessionRecord /\ ses'[s] \in SessionRecord /\ DueIn(ses[s]) - 1 <= DueIn(ses'[s])
      BY <1>1, <1>3, <1>10 DEF TypeOK
    <3>3. DueIn(ses[s]) \in Nat /\ DueIn(ses'[s]) \in Nat
      BY <3>2, LeftFacts
    <3>4. LessOne(e.due) <= DueIn(ses'[s])
      <4>1. e.due \in Nat
        BY <1>6
      <4> QED
        BY <3>1, <3>2, <3>3, <4>1 DEF LessOne
    <3>5. [e EXCEPT !.due = LessOne(@)] \in expiryHeap'
      BY <1>2
    <3> QED
      BY <1>6, <3>1, <3>4, <3>5
  <2>3. Covered'
    BY <1>2, <1>7, <2>2 DEF Covered
  <2> QED
    BY <1>8, <2>3, CoveredIsPrimed
<1> QED
  BY <1>8, <1>9, <1>11, <1>12, <1>13, <1>14 DEF IInv

-----------------------------------------------------------------------------
(***************************************************************************)
(* The theorems.                                                           *)
(***************************************************************************)

LEMMA StutteringPreserves == ASSUME IInv, UNCHANGED vars PROVE IInv'
<1>1. TypeOK /\ UNCHANGED <<indexVars, ses, actor, op, serving, monitor, skipped, hit, calls>>
  BY DEF IInv, vars
<1>2. calls' \in 0..MaxCalls /\ serving' \subseteq 1..created /\ op' \in [Channels -> OpRecord]
  BY <1>1 DEF TypeOK
<1>3. CallsNameCreated' /\ ClosesTracked'
  BY <1>1 DEF IInv, CallsNameCreated, Idle, ClosesTracked, indexVars
<1> QED
  BY <1>1, <1>2, <1>3, OnlyCalls

LEMMA NextPreserves == IInv /\ [Next]_vars => IInv'
<1> SUFFICES ASSUME IInv, [Next]_vars PROVE IInv'
  OBVIOUS
<1>1. calls < MaxCalls => calls + 1 \in 0..MaxCalls
  BY SessionManagerAssumption DEF IInv, TypeOK
<1>2. calls \in 0..MaxCalls
  BY DEF IInv, TypeOK
<1>3. ASSUME NEW c \in Channels, Call(c) PROVE IInv'
  <2>1. calls' \in 0..MaxCalls
    BY <1>1, <1>3 DEF Call
  <2> QED
    BY <1>3, <2>1, CreateRefusedPreserves, ActivateBeginPreserves, CloseBeginPreserves,
       ServicePreserves DEF Call
<1>4. CASE Panic
  <2>1. calls' \in 0..MaxCalls
    BY <1>1, <1>4 DEF Panic
  <2> QED
    BY <1>4, <2>1, ActorPanicsPreserves DEF Panic
<1>5. CASE Step /\ UNCHANGED calls
  <2>1. calls' \in 0..MaxCalls
    BY <1>2, <1>5
  <2>2. ASSUME NEW c \in Channels, Create(c) \/ Resume(c) \/ ActivateFail(c) PROVE IInv'
    BY <2>1, <2>2, CreatePreserves, ActivateFailPreserves, ActivateLockPreserves,
       ActivateCommitPreserves, ActivateCountPreserves, CloseFinishPreserves DEF Resume
  <2>3. ASSUME NEW s \in 1..created, ActorStep(s) \/ ServiceEnd(s) PROVE IInv'
    BY <2>1, <2>3, ActorTerminatesPreserves, ActorDroppedPreserves, ActorCleanupPreserves,
       ServiceEndPreserves DEF ActorStep
  <2>4. CASE Monitor
    BY <2>1, <2>4, ScanPreserves, ExpireSessionsPreserves, WakePreserves DEF Monitor
  <2>5. CASE Tick
    BY <2>1, <2>5, TickPreserves
  <2> QED
    BY <1>5, <2>2, <2>3, <2>4, <2>5 DEF Step
<1>6. CASE UNCHANGED vars
  BY <1>6, StutteringPreserves
<1> QED
  BY <1>3, <1>4, <1>5, <1>6 DEF Next

LEMMA Invariance == Spec => []IInv
  BY InitEstablishes, NextPreserves, PTL DEF Spec

\* Types: the maps, heaps and calls name created sessions only, and the counter
\* of unactivated sessions stays within its width.
THEOREM TypeCorrect == Spec => []TypeOK
<1>1. IInv => TypeOK
  BY DEF IInv
<1> QED
  BY <1>1, Invariance, PTL

\* A token is answered for only while its session is in the map, whatever
\* eviction, expiry, close and panics of actors do beside each other.
THEOREM TokensAlwaysNameSessions == Spec => []TokensNameSessions
<1>1. IInv => TokensNameSessions
  BY DEF IInv
<1> QED
  BY <1>1, Invariance, PTL

\* Every session that was never activated stays a candidate for eviction, apart
\* from those that were locked during a search.
THEOREM EvictionAlwaysCovers == Spec => []EvictionCovers
<1>1. IInv => EvictionCovers
  BY DEF IInv
<1> QED
  BY <1>1, Invariance, PTL

\* check_session_expiry finds every session in time, apart from those that were
\* locked during a scan.
THEOREM HeapAlwaysCovers == Spec => []HeapCoversSessions
<1>1. IInv => HeapCoversSessions
  BY DEF IInv
<1> QED
  BY <1>1, Invariance, PTL

\* The expiry task never sleeps past a deadline, although ActivateSession does
\* not notify it.
THEOREM AlwaysWakesInTime == Spec => []WakesInTime
<1>1. IInv => WakesInTime
  BY DEF IInv, WakesInTime, AlarmInTime, ListedWhileExpiring
<1> QED
  BY <1>1, Invariance, PTL

-----------------------------------------------------------------------------
(***************************************************************************)
(* The count of unactivated sessions.                                      *)
(***************************************************************************)

\* A session that has its token and a running actor is open.
OpenWhileRunning == \A s \in tokens : actor[s] = "running" => ~ses[s].closed

\* The sessions that unactivated_by_channel counts for channel c: those that
\* were never activated, and one that the channel has activated and will count.
Counted(c) ==
    {s \in 1..created :
       \/ s \in sessions /\ ~ses[s].user /\ ses[s].channel = c
       \/ op[c].pc = "count" /\ op[c].id = s}

\* What the call of channel c may rely on after its awaits: a session it found
\* activated stays so; one it found unactivated on its own channel is still there,
\* unactivated and on this channel, because no other call can change that; and a
\* close of an unactivated session comes from its own channel.
Relies(c) ==
    /\ ~op[c].was => ses[op[c].id].user
    /\ op[c].pc = "count" => op[c].was /\ op[c].prev = c /\ ses[op[c].id].user
    /\ op[c].was /\ op[c].pc \in {"terminate", "terminating", "closed"} => op[c].prev = c
    /\ op[c].was /\ op[c].prev = c /\ op[c].pc # "count" =>
         op[c].id \in sessions /\ ~ses[op[c].id].user /\ ses[op[c].id].channel = c

CallsRely == \A c \in Channels : ~Idle(c) => Relies(c)
CountsAgree == \A c \in Channels : counter[c] = Cardinality(Counted(c))

CountInv == OpenWhileRunning /\ (~hit => CallsRely /\ CountsAgree)

LEMMA CountedFinite ==
    ASSUME TypeOK, NEW S \in SUBSET (1..created)
    PROVE  IsFiniteSet(S) /\ Cardinality(S) \in Nat
<1>1. created \in Int /\ 1 \in Int
  BY SessionManagerAssumption DEF TypeOK
<1>2. IsFiniteSet(1..created)
  BY <1>1, FS_Interval
<1> QED
  BY <1>2, FS_Subset, FS_CardinalityType

LEMMA CountedMembers ==
    ASSUME NEW c \in Channels, NEW s
    PROVE  s \in Counted(c) <=> /\ s \in 1..created
                                /\ \/ s \in sessions /\ ~ses[s].user /\ ses[s].channel = c
                                   \/ op[c].pc = "count" /\ op[c].id = s
  BY DEF Counted

\* A number below the width of the counter is not changed by it.
LEMMA NoWrap ==
    ASSUME NEW n \in 0..(CounterMod - 1)
    PROVE  n % CounterMod = n
  BY SessionManagerAssumption

\* The step leaves alone what is counted.
LEMMA CountsKept ==
    ASSUME TypeOK, CountsAgree, UNCHANGED <<created, sessions, counter>>,
           \A s \in 1..created : ses'[s].user = ses[s].user /\ ses'[s].channel = ses[s].channel,
           \A c \in Channels : op[c].pc = "count" \/ op'[c].pc = "count" => op'[c] = op[c]
    PROVE  CountsAgree'
<1>1. ASSUME NEW c \in Channels PROVE Counted(c)' = Counted(c)
  BY DEF Counted
<1> QED
  BY <1>1 DEF CountsAgree

\* Of channel k one session is no longer counted, and the counter is lowered.
LEMMA CountLowered ==
    ASSUME TypeOK, CountsAgree, NEW k \in Channels, NEW s \in Counted(k),
           counter' = Decremented(counter, k), Counted(k)' = Counted(k) \ {s},
           \A c \in Channels \ {k} : Counted(c)' = Counted(c)
    PROVE  CountsAgree'
<1>1. IsFiniteSet(Counted(k)) /\ Cardinality(Counted(k)) \in Nat
  BY CountedFinite DEF Counted
<1>2. Cardinality(Counted(k) \ {s}) = Cardinality(Counted(k)) - 1 /\ IsFiniteSet(Counted(k) \ {s})
  BY <1>1, FS_RemoveElement
<1>3. Cardinality(Counted(k) \ {s}) \in Nat
  BY <1>2, FS_CardinalityType
<1>4. counter[k] = Cardinality(Counted(k)) /\ counter[k] \in 0..(CounterMod - 1)
  BY DEF CountsAgree, TypeOK
<1>5. counter'[k] = (counter[k] - 1) % CounterMod /\ \A c \in Channels \ {k} : counter'[c] = counter[c]
  BY DEF Decremented, TypeOK
<1>6. counter[k] - 1 \in 0..(CounterMod - 1)
  BY <1>2, <1>3, <1>4, SessionManagerAssumption
<1>7. counter'[k] = Cardinality(Counted(k)')
  BY <1>2, <1>4, <1>5, <1>6, NoWrap
<1> QED
  BY <1>5, <1>7 DEF CountsAgree

\* A call that goes on relies on the same, as its session is left alone.
LEMMA RelianceKept ==
    ASSUME NEW c \in Channels, Relies(c),
           op'[c].id = op[c].id, op'[c].was = op[c].was, op'[c].prev = op[c].prev,
           \/ op'[c].pc = op[c].pc
           \/ op[c].pc = "verify" /\ op'[c].pc = "commit"
           \/ op[c].pc = "terminate" /\ op'[c].pc = "terminating"
           \/ op[c].pc = "terminating" /\ op'[c].pc = "closed",
           ses'[op[c].id].user = ses[op[c].id].user,
           ses'[op[c].id].channel = ses[op[c].id].channel,
           op[c].id \in sessions => op[c].id \in sessions'
    PROVE  Relies(c)'
  BY DEF Relies

\* A call works on a created session.
LEMMA CallNames ==
    ASSUME IInv, NEW c \in Channels, ~Idle(c)
    PROVE  /\ op[c].id \in 1..created /\ op[c] \in CallRecord
           /\ op[c].prev \in Channels /\ op[c].was \in BOOLEAN
<1>1. TypeOK /\ CallsNameCreated
  BY DEF IInv
<1>2. op[c] \in CallRecord
  BY <1>1, CallFacts
<1> QED
  BY <1>1, <1>2 DEF CallsNameCreated, CallRecord

\* A step that leaves the sessions as they are but for their clocks and is_closed,
\* and the calls but for the one of channel k, which is not at its count.
LEMMA OnlyOneCall ==
    ASSUME IInv, CountInv, OpenWhileRunning', UNCHANGED <<created, sessions, counter>>,
           ~hit' => ~hit,
           \A s \in 1..created : ses'[s].user = ses[s].user /\ ses'[s].channel = ses[s].channel,
           NEW k \in Channels,
           \A c \in Channels \ {k} : op'[c] = op[c],
           op[k].pc # "count" /\ op'[k].pc # "count",
           ~hit' /\ Relies(k) /\ ~Idle(k) => (Idle(k)' \/ Relies(k)'),
           ~hit' /\ Idle(k) => (Idle(k)' \/ Relies(k)')
    PROVE  CountInv'
<1> SUFFICES ASSUME ~hit' PROVE CallsRely' /\ CountsAgree'
  BY DEF CountInv
<1>1. CallsRely /\ CountsAgree /\ ~hit /\ TypeOK
  BY DEF CountInv, IInv
<1>2. CountsAgree'
  <2>1. \A c \in Channels : op[c].pc = "count" \/ op'[c].pc = "count" => op'[c] = op[c]
    OBVIOUS
  <2> QED
    BY <1>1, <2>1, CountsKept
<1>3. ASSUME NEW c \in Channels, ~Idle(c)' PROVE Relies(c)'
  <2>1. CASE c = k
    BY <1>1, <1>3, <2>1 DEF CallsRely
  <2>2. CASE c # k
    <3>1. op'[c] = op[c] /\ ~Idle(c)
      BY <1>3, <2>2 DEF Idle
    <3>2. Relies(c) /\ op[c].id \in 1..created
      BY <3>1, <1>1, CallNames DEF CallsRely
    <3> QED
      BY <3>1, <3>2, RelianceKept
  <2> QED
    BY <2>1, <2>2
<1> QED
  BY <1>2, <1>3 DEF CallsRely

\* A step that leaves the calls alone too.
LEMMA NoCall ==
    ASSUME IInv, CountInv, OpenWhileRunning', UNCHANGED <<created, sessions, counter, op>>,
           ~hit' => ~hit,
           \A s \in 1..created : ses'[s].user = ses[s].user /\ ses'[s].channel = ses[s].channel
    PROVE  CountInv'
<1> SUFFICES ASSUME ~hit' PROVE CallsRely' /\ CountsAgree'
  BY DEF CountInv
<1>1. CallsRely /\ CountsAgree /\ ~hit /\ TypeOK
  BY DEF CountInv, IInv
<1>2. CountsAgree'
  BY <1>1, CountsKept
<1>3. ASSUME NEW c \in Channels, ~Idle(c)' PROVE Relies(c)'
  <2>1. ~Idle(c)
    BY <1>3 DEF Idle
  <2>2. Relies(c) /\ op[c].id \in 1..created
    BY <2>1, <1>1, CallNames DEF CallsRely
  <2> QED
    BY <2>2, RelianceKept
<1> QED
  BY <1>2, <1>3 DEF CallsRely

\* Sessions stay open when no actor starts and none of them closes.
LEMMA OpenKept ==
    ASSUME OpenWhileRunning, tokens' \subseteq tokens,
           \A s \in tokens' : /\ actor'[s] = "running" => actor[s] = "running"
                              /\ actor'[s] = "running" => ses'[s].closed = ses[s].closed
    PROVE  OpenWhileRunning'
  BY DEF OpenWhileRunning

LEMMA TouchedKeeps ==
    ASSUME TypeOK, NEW s \in 1..created, ses' = Touched(s), created' = created
    PROVE  \A t \in 1..created : /\ ses'[t].user = ses[t].user /\ ses'[t].channel = ses[t].channel
                                 /\ ses'[t].closed = ses[t].closed
<1> TAKE t \in 1..created
<1>1. ses[t] \in SessionRecord /\ ses[s] \in SessionRecord
  BY DEF TypeOK
<1> QED
  BY <1>1 DEF Touched, SessionRecord, TypeOK

LEMMA ActivateBeginCounts ==
    ASSUME IInv, CountInv, NEW c \in Channels, NEW s \in 1..created, ActivateBegin(c, s)
    PROVE  CountInv'
<1>1. TypeOK /\ tokens \subseteq sessions /\ tokens \subseteq 1..created
  BY DEF IInv, TokensNameSessions, TypeOK
<1>2. /\ Idle(c) /\ s \in tokens /\ ses' = Touched(s)
      /\ UNCHANGED <<created, sessions, tokens, counter, actor>>
  BY DEF ActivateBegin, indexVars
<1>3. op' = [op EXCEPT ![c] = Captured("verify", s, ~IsActivated(s), ses[s].channel)] \/ op' = op
  BY DEF ActivateBegin
<1>4. \A t \in 1..created : /\ ses'[t].user = ses[t].user /\ ses'[t].channel = ses[t].channel
                            /\ ses'[t].closed = ses[t].closed
  BY <1>1, <1>2, TouchedKeeps
<1>5. OpenWhileRunning'
  BY <1>1, <1>2, <1>4, OpenKept DEF CountInv
<1>6. ~hit' => ~hit /\ ~ses[s].closed
  BY DEF ActivateBegin
<1>7. op[c].pc # "count" /\ op'[c].pc # "count" /\ \A d \in Channels \ {c} : op'[d] = op[d]
  BY <1>1, <1>2, <1>3 DEF Idle, Captured, TypeOK
<1>8. ~hit' => Idle(c)' \/ Relies(c)'
  <2> SUFFICES ASSUME ~hit', op' # op PROVE Relies(c)'
    BY <1>2 DEF Idle
  <2>1. op'[c] = Captured("verify", s, ~IsActivated(s), ses[s].channel)
    BY <1>1, <1>3 DEF TypeOK
  <2>2. op'[c].id = s /\ op'[c].was = ~ses[s].user /\ op'[c].prev = ses[s].channel /\ op'[c].pc = "verify"
    BY <1>6, <2>1 DEF Captured, IsActivated
  <2> QED
    BY <1>1, <1>2, <1>4, <2>2 DEF Relies
<1> QED
  BY <1>2, <1>4, <1>5, <1>6, <1>7, <1>8, OnlyOneCall

LEMMA ActivateFailCounts ==
    ASSUME IInv, CountInv, NEW c \in Channels, ActivateFail(c)
    PROVE  CountInv'
<1>1. /\ op[c].pc = "verify" /\ op' = [op EXCEPT ![c] = NoOp]
      /\ UNCHANGED <<created, sessions, tokens, counter, ses, actor, hit>>
  BY DEF ActivateFail, indexVars
<1>2. op'[c] = NoOp /\ \A d \in Channels \ {c} : op'[d] = op[d]
  BY <1>1 DEF IInv, TypeOK
<1>3. Idle(c)' /\ op'[c].pc # "count"
  BY <1>2 DEF Idle, NoOp
<1>4. OpenWhileRunning'
  BY <1>1 DEF CountInv, OpenWhileRunning
<1> QED
  BY <1>1, <1>2, <1>3, <1>4, OnlyOneCall

LEMMA ActivateLockCounts ==
    ASSUME IInv, CountInv, NEW c \in Channels, ActivateLock(c)
    PROVE  CountInv'
<1>1. /\ op[c].pc = "verify" /\ op' = [op EXCEPT ![c].pc = "commit"]
      /\ UNCHANGED <<created, sessions, tokens, counter, ses, actor, hit>>
  BY DEF ActivateLock, indexVars
<1>2. ~Idle(c)
  BY <1>1 DEF Idle
<1>3. op[c] \in CallRecord
  BY <1>2, CallNames
<1>4. /\ op'[c].pc = "commit" /\ op'[c].id = op[c].id /\ op'[c].was = op[c].was
      /\ op'[c].prev = op[c].prev /\ \A d \in Channels \ {c} : op'[d] = op[d]
  BY <1>1, <1>3 DEF IInv, TypeOK, CallRecord
<1>5. Relies(c) => Relies(c)'
  BY <1>1, <1>4, RelianceKept
<1>6. OpenWhileRunning'
  BY <1>1 DEF CountInv, OpenWhileRunning
<1> QED
  BY <1>1, <1>2, <1>4, <1>5, <1>6, OnlyOneCall

LEMMA CloseBeginCounts ==
    ASSUME IInv, CountInv, NEW c \in Channels, NEW s \in 1..created, CloseBegin(c, s)
    PROVE  CountInv'
<1>1. /\ Idle(c) /\ s \in tokens /\ actor[s] = "running" /\ (IsActivated(s) \/ ses[s].channel = c)
      /\ op' = [op EXCEPT ![c] = Captured("terminate", s, ~IsActivated(s), ses[s].channel)]
      /\ UNCHANGED <<created, sessions, tokens, counter, ses, actor, hit>>
  BY DEF CloseBegin, indexVars
<1>2. op'[c] = Captured("terminate", s, ~IsActivated(s), ses[s].channel)
      /\ \A d \in Channels \ {c} : op'[d] = op[d]
  BY <1>1 DEF IInv, TypeOK
<1>3. IsActivated(s) <=> ses[s].user
  BY <1>1 DEF CountInv, OpenWhileRunning, IsActivated
<1>4. /\ op'[c].id = s /\ op'[c].was = ~ses[s].user /\ op'[c].prev = ses[s].channel
      /\ op'[c].pc = "terminate"
  BY <1>2, <1>3 DEF Captured
<1>5. s \in sessions
  BY <1>1 DEF IInv, TokensNameSessions
<1>6. Relies(c)'
  <2>1. ses'[s] = ses[s] /\ sessions' = sessions /\ (ses[s].user \/ ses[s].channel = c)
    BY <1>1, <1>3
  <2>2. op'[c].was <=> ~ses[s].user
    BY <1>4
  <2> QED
    BY <1>4, <1>5, <2>1, <2>2 DEF Relies
<1>7. OpenWhileRunning'
  BY <1>1 DEF CountInv, OpenWhileRunning
<1>8. op[c].pc # "count"
  BY <1>1 DEF Idle
<1> QED
  BY <1>1, <1>2, <1>4, <1>6, <1>7, <1>8, OnlyOneCall

LEMMA ServiceCounts ==
    ASSUME IInv, CountInv, NEW c \in Channels, NEW s \in 1..created, Service(c, s)
    PROVE  CountInv'
<1>1. ses' = Touched(s) /\ UNCHANGED <<created, sessions, tokens, counter, actor, op, hit>>
  BY DEF Service, indexVars
<1>2. TypeOK /\ tokens \subseteq 1..created
  BY DEF IInv, TypeOK
<1>3. \A t \in 1..created : /\ ses'[t].user = ses[t].user /\ ses'[t].channel = ses[t].channel
                            /\ ses'[t].closed = ses[t].closed
  BY <1>1, <1>2, TouchedKeeps
<1>4. OpenWhileRunning'
  BY <1>1, <1>2, <1>3, OpenKept DEF CountInv
<1> QED
  BY <1>1, <1>3, <1>4, NoCall

\* Steps that leave sessions and calls alone.
LEMMA FrameCounts ==
    ASSUME IInv, CountInv, UNCHANGED <<created, sessions, tokens, counter, ses, actor, op, hit>>
    PROVE  CountInv'
<1>1. OpenWhileRunning'
  BY DEF CountInv, OpenWhileRunning
<1> QED
  BY <1>1, NoCall

LEMMA TickCounts ==
    ASSUME IInv, CountInv, Tick
    PROVE  CountInv'
<1>1. /\ UNCHANGED <<created, sessions, tokens, counter, actor, op, hit>>
      /\ ses' = [s \in 1..created |->
           IF s \notin sessions /\ ~InCall(s) THEN ses[s] ELSE
           [ses[s] EXCEPT !.idle = LeastOf({@ + 1, Timeout + 1}),
                          !.age = LeastOf({@ + 1, UnactivatedTimeout})]]
  BY DEF Tick
<1>2. \A t \in 1..created : /\ ses'[t].user = ses[t].user /\ ses'[t].channel = ses[t].channel
                            /\ ses'[t].closed = ses[t].closed
  <2> TAKE t \in 1..created
  <2>1. ses[t] \in SessionRecord
    BY DEF IInv, TypeOK
  <2> QED
    BY <1>1, <2>1 DEF SessionRecord
<1>3. OpenWhileRunning'
  <2>1. tokens \subseteq 1..created
    BY DEF IInv, TypeOK
  <2> QED
    BY <1>1, <1>2, <2>1, OpenKept DEF CountInv
<1> QED
  BY <1>1, <1>2, <1>3, NoCall

LEMMA ClosedKeeps ==
    ASSUME TypeOK, NEW s \in 1..created, ses' = [ses EXCEPT ![s].closed = TRUE]
    PROVE  \A t \in 1..created :
             /\ ses'[t].user = ses[t].user /\ ses'[t].channel = ses[t].channel
             /\ t # s => ses'[t].closed = ses[t].closed
<1> TAKE t \in 1..created
<1>1. ses[t] \in SessionRecord /\ ses[s] \in SessionRecord
  BY DEF TypeOK
<1> QED
  BY <1>1 DEF SessionRecord, TypeOK

LEMMA ActorClosesOpen ==
    ASSUME IInv, CountInv, NEW s \in 1..created, ActorCloses(s)
    PROVE  /\ OpenWhileRunning' /\ UNCHANGED <<created, sessions, tokens, counter, hit>>
           /\ \A t \in 1..created : ses'[t].user = ses[t].user /\ ses'[t].channel = ses[t].channel
<1>1. /\ UNCHANGED <<created, sessions, tokens, counter, hit>>
      /\ actor' = [actor EXCEPT ![s] = "closing"] /\ ses' = [ses EXCEPT ![s].closed = TRUE]
  BY DEF ActorCloses, indexVars
<1>2. TypeOK /\ tokens \subseteq 1..created
  BY DEF IInv, TypeOK
<1>3. \A t \in 1..created : /\ ses'[t].user = ses[t].user /\ ses'[t].channel = ses[t].channel
                            /\ t # s => ses'[t].closed = ses[t].closed
  BY <1>1, <1>2, ClosedKeeps
<1>4. actor'[s] = "closing" /\ \A t \in (1..created) \ {s} : actor'[t] = actor[t]
  BY <1>1, <1>2 DEF TypeOK
<1>5. OpenWhileRunning'
  BY <1>1, <1>2, <1>3, <1>4, OpenKept DEF CountInv
<1> QED
  BY <1>1, <1>3, <1>5

LEMMA ActorTerminatesCounts ==
    ASSUME IInv, CountInv, NEW s \in 1..created, NEW c \in Channels, ActorTerminates(s, c)
    PROVE  CountInv'
<1>1. op[c].pc = "terminate" /\ ActorCloses(s) /\ op' = [op EXCEPT ![c].pc = "terminating"]
  BY DEF ActorTerminates, Waiting
<1>2. /\ OpenWhileRunning' /\ UNCHANGED <<created, sessions, tokens, counter, hit>>
      /\ \A t \in 1..created : ses'[t].user = ses[t].user /\ ses'[t].channel = ses[t].channel
  BY <1>1, ActorClosesOpen
<1>3. ~Idle(c)
  BY <1>1 DEF Idle
<1>4. op[c] \in CallRecord /\ op[c].id \in 1..created
  BY <1>3, CallNames
<1>5. /\ op'[c].pc = "terminating" /\ op'[c].id = op[c].id /\ op'[c].was = op[c].was
      /\ op'[c].prev = op[c].prev /\ \A d \in Channels \ {c} : op'[d] = op[d]
  BY <1>1, <1>4 DEF IInv, TypeOK, CallRecord
<1>6. Relies(c) => Relies(c)'
  BY <1>1, <1>2, <1>4, <1>5, RelianceKept
<1> QED
  BY <1>1, <1>2, <1>3, <1>5, <1>6, OnlyOneCall

LEMMA ActorPanicsCounts ==
    ASSUME IInv, CountInv, NEW s \in 1..created, ActorPanics(s)
    PROVE  CountInv'
<1>1. /\ OpenWhileRunning' /\ UNCHANGED <<created, sessions, tokens, counter, hit, op>>
      /\ \A t \in 1..created : ses'[t].user = ses[t].user /\ ses'[t].channel = ses[t].channel
  BY ActorClosesOpen DEF ActorPanics
<1> QED
  BY <1>1, NoCall

LEMMA ActorDroppedCounts ==
    ASSUME IInv, CountInv, NEW s \in 1..created, ActorDropped(s)
    PROVE  CountInv'
<1>1. /\ UNCHANGED <<created, sessions, tokens, counter, op, hit>>
      /\ actor' = [actor EXCEPT ![s] = "ended"] /\ ses' = [ses EXCEPT ![s].closed = TRUE]
  BY DEF ActorDropped, indexVars
<1>2. TypeOK /\ tokens \subseteq 1..created
  BY DEF IInv, TypeOK
<1>3. \A t \in 1..created : /\ ses'[t].user = ses[t].user /\ ses'[t].channel = ses[t].channel
                            /\ t # s => ses'[t].closed = ses[t].closed
  BY <1>1, <1>2, ClosedKeeps
<1>4. actor'[s] = "ended" /\ \A t \in (1..created) \ {s} : actor'[t] = actor[t]
  BY <1>1, <1>2 DEF TypeOK
<1>5. OpenWhileRunning'
  BY <1>1, <1>2, <1>3, <1>4, OpenKept DEF CountInv
<1> QED
  BY <1>1, <1>3, <1>5, NoCall

\* An activation that is refused ends; one that succeeds moves the session from the
\* unactivated ones to the one that the channel will count.
LEMMA ActivateCommitCounts ==
    ASSUME IInv, CountInv, NEW c \in Channels, ActivateCommit(c)
    PROVE  CountInv'
<1> DEFINE s == op[c].id
<1>1. /\ op[c].pc = "commit" /\ UNCHANGED <<created, sessions, tokens, counter, actor, hit>>
  BY DEF ActivateCommit, indexVars
<1>2. TypeOK /\ ~Idle(c)
  BY <1>1 DEF IInv, Idle
<1>3. s \in 1..created /\ op[c] \in CallRecord /\ op[c].prev \in Channels /\ op[c].was \in BOOLEAN
  BY <1>2, CallNames
<1>4. CASE op' = [op EXCEPT ![c] = NoOp] /\ UNCHANGED ses
  <2>1. op'[c] = NoOp /\ \A d \in Channels \ {c} : op'[d] = op[d]
    BY <1>2, <1>4 DEF TypeOK
  <2>2. Idle(c)' /\ op'[c].pc # "count"
    BY <2>1 DEF Idle, NoOp
  <2>3. OpenWhileRunning'
    BY <1>1, <1>4 DEF CountInv, OpenWhileRunning
  <2> QED
    BY <1>1, <1>4, <2>1, <2>2, <2>3, OnlyOneCall
<1>5. CASE /\ ~TransferForbidden(c)
           /\ ses' = [ses EXCEPT ![s].user = TRUE, ![s].channel = c]
           /\ op' = [d \in Channels |->
                IF d = c THEN IF op[c].was THEN [op[c] EXCEPT !.pc = "count"] ELSE NoOp
                ELSE IF op[d].pc \in {"verify", "commit"} /\ op[d].id = s
                     THEN [op[d] EXCEPT !.fresh = FALSE] ELSE op[d]]
  <2>1. /\ ses'[s].user /\ ses'[s].channel = c /\ ses'[s].closed = ses[s].closed
        /\ \A t \in 1..created : t # s => ses'[t] = ses[t]
    <3>1. ses[s] \in SessionRecord
      BY <1>2, <1>3 DEF TypeOK
    <3>2. ses'[s] = [ses[s] EXCEPT !.user = TRUE, !.channel = c]
      BY <1>2, <1>3, <1>5 DEF TypeOK
    <3>3. \A t \in 1..created : t # s => ses'[t] = ses[t]
      BY <1>2, <1>3, <1>5 DEF TypeOK
    <3> QED
      BY <3>1, <3>2, <3>3 DEF SessionRecord
  <2>2. OpenWhileRunning'
    <3>1. \A t \in tokens : t \in 1..created /\ ses'[t].closed = ses[t].closed
      BY <1>2, <2>1 DEF TypeOK
    <3> QED
      BY <1>1, <3>1 DEF CountInv, OpenWhileRunning
  <2> SUFFICES ASSUME ~hit' PROVE CallsRely' /\ CountsAgree'
    BY <2>2 DEF CountInv
  <2>3. CallsRely /\ CountsAgree /\ Relies(c)
    BY <1>1, <1>2 DEF CountInv, CallsRely
  <2>4. op[c].was => /\ op[c].prev = c /\ s \in sessions /\ ~ses[s].user /\ ses[s].channel = c
    BY <1>1, <1>5, <2>3 DEF TransferForbidden, Relies
  <2>5. ~op[c].was => ses[s].user
    BY <2>3 DEF Relies
  <2>6. /\ op[c].was => op'[c].pc = "count" /\ op'[c].id = s /\ op'[c].was /\ op'[c].prev = c
        /\ ~op[c].was => op'[c].pc = "idle"
    BY <1>3, <1>5, <2>4 DEF CallRecord, NoOp
  <2>7. ASSUME NEW d \in Channels, d # c
        PROVE  /\ ~Idle(d) => /\ op'[d].id = op[d].id /\ op'[d].was = op[d].was
                               /\ op'[d].prev = op[d].prev
               /\ op'[d].pc = op[d].pc
               /\ op[d].pc = "count" => op'[d] = op[d]
    <3>1. CASE Idle(d)
      BY <1>5, <2>7, <3>1 DEF Idle
    <3>2. CASE ~Idle(d)
      <4>1. op[d] \in CallRecord
        BY <3>2, CallNames
      <4> QED
        BY <1>5, <2>7, <4>1 DEF CallRecord
    <3> QED
      BY <3>1, <3>2
  <2>8. CallsRely'
    <3> SUFFICES ASSUME NEW d \in Channels, ~Idle(d)' PROVE Relies(d)'
      BY DEF CallsRely
    <3>1. CASE d = c
      <4>1. op[c].was
        BY <2>6, <3>1 DEF Idle
      <4> QED
        BY <2>1, <2>6, <3>1, <4>1 DEF Relies
    <3>2. CASE d # c
      <4>1. ~Idle(d)
        BY <2>7, <3>2 DEF Idle
      <4>2. Relies(d) /\ op[d].id \in 1..created
        BY <2>3, <4>1, CallNames DEF CallsRely
      <4>3. /\ op'[d].pc = op[d].pc /\ op'[d].id = op[d].id /\ op'[d].was = op[d].was
            /\ op'[d].prev = op[d].prev
        BY <2>7, <3>2, <4>1
      <4>4. CASE op[d].id # s
        BY <1>1, <2>1, <4>2, <4>3, <4>4, RelianceKept
      <4>5. CASE op[d].id = s
        <5>1. ~(op[d].was /\ op[d].prev = d /\ op[d].pc # "count")
          BY <2>4, <2>5, <3>2, <4>2, <4>5 DEF Relies
        <5> QED
          BY <2>1, <4>2, <4>3, <4>5, <5>1 DEF Relies
      <4> QED
        BY <4>4, <4>5
    <3> QED
      BY <3>1, <3>2
  <2>9. ASSUME NEW d \in Channels PROVE Counted(d)' = Counted(d)
    <3> SUFFICES ASSUME NEW t \in 1..created
                 PROVE  \/ t \in sessions' /\ ~ses'[t].user /\ ses'[t].channel = d
                        \/ op'[d].pc = "count" /\ op'[d].id = t
                        <=>
                        \/ t \in sessions /\ ~ses[t].user /\ ses[t].channel = d
                        \/ op[d].pc = "count" /\ op[d].id = t
      BY <1>1 DEF Counted
    <3>1. CASE d = c
      BY <1>1, <2>1, <2>4, <2>5, <2>6, <3>1
    <3>2. CASE d # c
      <4>1. op[d].pc = "count" \/ op'[d].pc = "count" => op'[d] = op[d]
        BY <2>7, <3>2
      <4>2. ~(s \in sessions /\ ~ses[s].user /\ ses[s].channel = d)
        BY <1>3, <2>4, <2>5, <3>2
      <4> QED
        BY <1>1, <2>1, <4>1, <4>2
    <3> QED
      BY <3>1, <3>2
  <2> QED
    BY <1>1, <2>3, <2>8, <2>9 DEF CountsAgree
<1> QED
  BY <1>4, <1>5 DEF ActivateCommit

LEMMA ActivateCountCounts ==
    ASSUME IInv, CountInv, NEW c \in Channels, ActivateCount(c)
    PROVE  CountInv'
<1>1. /\ op[c].pc = "count" /\ counter' = Decremented(counter, op[c].prev)
      /\ op' = [op EXCEPT ![c] = NoOp] /\ UNCHANGED <<created, sessions, tokens, ses, actor, hit>>
  BY DEF ActivateCount
<1>2. TypeOK /\ ~Idle(c)
  BY <1>1 DEF IInv, Idle
<1>3. op[c].id \in 1..created
  BY <1>2, CallNames
<1>4. op'[c].pc = "idle" /\ \A d \in Channels \ {c} : op'[d] = op[d]
  BY <1>1, <1>2 DEF TypeOK, NoOp
<1>5. OpenWhileRunning'
  BY <1>1 DEF CountInv, OpenWhileRunning
<1> SUFFICES ASSUME ~hit' PROVE CallsRely' /\ CountsAgree'
  BY <1>5 DEF CountInv
<1>6. CallsRely /\ CountsAgree /\ Relies(c)
  BY <1>1, <1>2 DEF CountInv, CallsRely
<1>7. op[c].prev = c /\ ses[op[c].id].user
  BY <1>1, <1>6 DEF Relies
<1>8. CountsAgree'
  <2>1. op[c].id \in Counted(c)
    BY <1>1, <1>3 DEF Counted
  <2>2. Counted(c)' = Counted(c) \ {op[c].id}
    BY <1>1, <1>4, <1>7 DEF Counted
  <2>3. \A d \in Channels \ {c} : Counted(d)' = Counted(d)
    BY <1>1, <1>4 DEF Counted
  <2> QED
    BY <1>1, <1>2, <1>6, <1>7, <2>1, <2>2, <2>3, CountLowered
<1>9. CallsRely'
  <2> SUFFICES ASSUME NEW d \in Channels, ~Idle(d)' PROVE Relies(d)'
    BY DEF CallsRely
  <2>1. op'[d] = op[d] /\ ~Idle(d)
    BY <1>4 DEF Idle
  <2>2. Relies(d)
    BY <1>6, <2>1 DEF CallsRely
  <2> QED
    BY <1>1, <2>1, <2>2, RelianceKept
<1> QED
  BY <1>8, <1>9

LEMMA ActorCleanupCounts ==
    ASSUME IInv, CountInv, NEW s \in 1..created, ActorCleanup(s)
    PROVE  CountInv'
<1>1. /\ actor' = [actor EXCEPT ![s] = "ended"] /\ tokens' = tokens \ {s}
      /\ op' = [c \in Channels |->
           IF op[c].pc = "terminating" /\ op[c].id = s THEN [op[c] EXCEPT !.pc = "closed"]
           ELSE IF Waiting(c, s) THEN NoOp ELSE op[c]]
      /\ UNCHANGED <<created, sessions, counter, ses, hit>>
  BY DEF ActorCleanup
<1>2. TypeOK /\ tokens \subseteq 1..created
  BY DEF IInv, TypeOK
<1>3. OpenWhileRunning'
  <2>1. \A t \in tokens' : actor'[t] = actor[t]
    BY <1>1, <1>2 DEF TypeOK
  <2> QED
    BY <1>1, <2>1, OpenKept DEF CountInv
<1> SUFFICES ASSUME ~hit' PROVE CallsRely' /\ CountsAgree'
  BY <1>3 DEF CountInv
<1>4. CallsRely /\ CountsAgree
  BY <1>1 DEF CountInv
<1>5. ASSUME NEW c \in Channels, ~Idle(c)'
      PROVE  /\ ~Idle(c) /\ op'[c].id = op[c].id /\ op'[c].was = op[c].was /\ op'[c].prev = op[c].prev
             /\ op'[c].pc = op[c].pc \/ (op[c].pc = "terminating" /\ op'[c].pc = "closed")
  <2>1. op'[c] # NoOp
    BY <1>5 DEF Idle, NoOp
  <2>2. CASE op[c].pc = "terminating" /\ op[c].id = s
    <3>1. ~Idle(c)
      BY <2>2 DEF Idle
    <3>2. op[c] \in CallRecord
      BY <3>1, CallNames
    <3> QED
      BY <1>1, <2>2, <3>1, <3>2 DEF CallRecord
  <2>3. CASE op'[c] = op[c]
    BY <1>5, <2>3 DEF Idle
  <2> QED
    BY <1>1, <2>1, <2>2, <2>3
<1>6. CallsRely'
  <2> SUFFICES ASSUME NEW c \in Channels, ~Idle(c)' PROVE Relies(c)'
    BY DEF CallsRely
  <2>1. Relies(c)
    BY <1>4, <1>5 DEF CallsRely
  <2> QED
    BY <1>1, <1>5, <2>1, RelianceKept
<1>7. \A c \in Channels : op[c].pc = "count" \/ op'[c].pc = "count" => op'[c] = op[c]
  <2> TAKE c \in Channels
  <2>1. CASE op[c].pc = "count"
    BY <1>1, <2>1 DEF Waiting
  <2>2. CASE op'[c].pc = "count"
    <3>1. ~Idle(c)'
      BY <2>2 DEF Idle
    <3>2. op[c].pc = "count"
      BY <1>5, <2>2, <3>1
    <3> QED
      BY <2>1, <3>2
  <2> QED
    BY <2>1, <2>2
<1> QED
  BY <1>1, <1>2, <1>4, <1>6, <1>7, CountsKept

\* A session leaves the map.  Under ~hit' no other call works on it but those that
\* found it activated.
LEMMA CloseFinishCounts ==
    ASSUME IInv, CountInv, NEW c \in Channels, CloseFinish(c)
    PROVE  CountInv'
<1> DEFINE s == op[c].id
<1>1. /\ op[c].pc = "closed" /\ sessions' = sessions \ {s} /\ op' = [op EXCEPT ![c] = NoOp]
      /\ counter' = IF op[c].was THEN Decremented(counter, op[c].prev) ELSE counter
      /\ UNCHANGED <<created, tokens, ses, actor, hit>>
  BY DEF CloseFinish
<1>2. TypeOK /\ ~Idle(c)
  BY <1>1 DEF IInv, Idle
<1>3. s \in 1..created
  BY <1>2, CallNames
<1>4. op'[c].pc = "idle" /\ \A d \in Channels \ {c} : op'[d] = op[d]
  BY <1>1, <1>2 DEF TypeOK, NoOp
<1>5. OpenWhileRunning'
  BY <1>1 DEF CountInv, OpenWhileRunning
<1> SUFFICES ASSUME ~hit' PROVE CallsRely' /\ CountsAgree'
  BY <1>5 DEF CountInv
<1>6. CallsRely /\ CountsAgree /\ Relies(c)
  BY <1>1, <1>2 DEF CountInv, CallsRely
<1>7. /\ op[c].was => op[c].prev = c /\ s \in sessions /\ ~ses[s].user /\ ses[s].channel = c
      /\ ~op[c].was => ses[s].user
  BY <1>1, <1>6 DEF Relies
<1>8. CallsRely'
  <2> SUFFICES ASSUME NEW d \in Channels, ~Idle(d)' PROVE Relies(d)'
    BY DEF CallsRely
  <2>1. op'[d] = op[d] /\ ~Idle(d) /\ d # c
    BY <1>4 DEF Idle
  <2>2. Relies(d)
    BY <1>6, <2>1 DEF CallsRely
  <2>3. CASE op[d].id # s
    BY <1>1, <2>1, <2>2, <2>3, RelianceKept
  <2>4. CASE op[d].id = s
    <3>1. ~(op[d].was /\ op[d].prev = d /\ op[d].pc # "count")
      BY <1>7, <2>1, <2>2, <2>4 DEF Relies
    <3> QED
      BY <1>1, <2>1, <2>2, <2>4, <3>1 DEF Relies
  <2> QED
    BY <2>3, <2>4
<1>9. \A d \in Channels \ {c} : Counted(d)' = Counted(d)
  <2> TAKE d \in Channels \ {c}
  <2>1. ~(s \in sessions /\ ~ses[s].user /\ ses[s].channel = d)
    BY <1>7, <1>2, CallNames
  <2> QED
    BY <1>1, <1>4, <2>1 DEF Counted
<1>10. CASE op[c].was
  <2>1. s \in Counted(c) /\ Counted(c)' = Counted(c) \ {s}
    BY <1>1, <1>3, <1>4, <1>7, <1>10 DEF Counted
  <2>2. CountsAgree'
    BY <1>1, <1>2, <1>6, <1>7, <1>9, <1>10, <2>1, CountLowered
  <2> QED
    BY <1>8, <2>2
<1>11. CASE ~op[c].was
  <2>1. Counted(c)' = Counted(c)
    BY <1>1, <1>4, <1>7, <1>11 DEF Counted
  <2> QED
    BY <1>1, <1>6, <1>8, <1>9, <1>11, <2>1 DEF CountsAgree
<1> QED
  BY <1>10, <1>11

\* The counter after the search for a session to evict: the evicted session was
\* counted for its channel, unless a call on it was under way.
LEMMA EvictionCounts ==
    ASSUME IInv, CountInv, Evict, ~hit'
    PROVE  /\ CallsRely /\ CountsAgree
           /\ \A s \in Evicted : s \in 1..created /\ ~ses[s].user /\ ~InCall(s)
           /\ \A c \in Channels :
                /\ CounterAfterEviction[c] = Cardinality(Counted(c) \ Evicted)
                /\ IsFiniteSet(Counted(c) \ Evicted)
<1>1. TypeOK
  BY DEF IInv
<1>2. CallsRely /\ CountsAgree /\ \A s \in Evicted : ~InCall(s) /\ ~ses[s].closed
  BY DEF Evict, CountInv
<1>3. ASSUME NEW c \in Channels
      PROVE  IsFiniteSet(Counted(c)) /\ IsFiniteSet(Counted(c) \ Evicted)
             /\ Cardinality(Counted(c)) \in Nat /\ Cardinality(Counted(c) \ Evicted) \in Nat
  <2>1. Counted(c) \in SUBSET (1..created) /\ Counted(c) \ Evicted \in SUBSET (1..created)
    BY DEF Counted
  <2> QED
    BY <1>1, <2>1, CountedFinite
<1>4. CASE Evicted = {}
  <2>1. ASSUME NEW c \in Channels PROVE Counted(c) \ Evicted = Counted(c)
    BY <1>4
  <2> QED
    BY <1>2, <1>3, <1>4, <2>1 DEF CounterAfterEviction, CountsAgree
<1>5. CASE Evicted # {}
  <2> DEFINE v == LeastOf(Evictable)
  <2>1. Evicted = {v} /\ Evictable # {}
    BY <1>5 DEF Evicted
  <2>2. v \in Evictable /\ v \in Nat
    <3>1. Evictable \subseteq unactHeap /\ unactHeap \subseteq 1..created /\ created \in Nat
      BY <1>1 DEF Evictable, TypeOK
    <3>2. Evictable \subseteq Nat
      BY <3>1
    <3>3. v \in Evictable
      BY <2>1, <3>2, LeastOfNat
    <3> QED
      BY <3>2, <3>3
  <2> HIDE DEF v
  <2>3. v \in sessions /\ v \in 1..created /\ ~ses[v].user /\ ~InCall(v)
    BY <1>1, <1>2, <2>1, <2>2 DEF Evictable, IsActivated, TypeOK
  <2>4. LeastOf(Evicted) = v
    <3>1. LeastOf({v}) \in {v}
      BY <2>2, LeastOfNat
    <3> QED
      BY <2>1, <3>1
  <2> DEFINE k == ses[v].channel
  <2>5. k \in Channels
    BY <1>1, <2>3 DEF TypeOK, SessionRecord
  <2>6. CounterAfterEviction = Decremented(counter, k)
    BY <1>5, <2>4 DEF CounterAfterEviction
  <2> HIDE DEF k
  <2>7. v \in Counted(k) /\ \A c \in Channels \ {k} : v \notin Counted(c)
    <3>1. \A c \in Channels : ~(op[c].pc = "count" /\ op[c].id = v)
      BY <2>3 DEF InCall, Idle
    <3> QED
      BY <2>3, <2>5, <3>1 DEF Counted, k
  <2>8. \A c \in Channels \ {k} : /\ Counted(c) \ Evicted = Counted(c)
                                  /\ CounterAfterEviction[c] = counter[c]
    BY <1>1, <2>1, <2>6, <2>7 DEF Decremented, TypeOK
  <2>9. CounterAfterEviction[k] = (counter[k] - 1) % CounterMod /\ counter[k] \in 0..(CounterMod - 1)
    BY <1>1, <2>5, <2>6 DEF Decremented, TypeOK
  <2>10. Cardinality(Counted(k) \ Evicted) = Cardinality(Counted(k)) - 1
    BY <1>3, <2>1, <2>5, <2>7, FS_RemoveElement
  <2>11. counter[k] - 1 \in 0..(CounterMod - 1)
    BY <1>2, <1>3, <2>5, <2>9, <2>10, SessionManagerAssumption DEF CountsAgree
  <2>12. CounterAfterEviction[k] = Cardinality(Counted(k) \ Evicted)
    BY <1>2, <2>5, <2>9, <2>10, <2>11, NoWrap DEF CountsAgree
  <2> QED
    BY <1>2, <1>3, <2>1, <2>3, <2>8, <2>12 DEF CountsAgree
<1> QED
  BY <1>4, <1>5

\* What an eviction leaves of a session.
LEMMA ClosedAll ==
    ASSUME TypeOK, NEW S, NEW s \in 1..created
    PROVE  /\ AllClosed(S)[s].user = ses[s].user /\ AllClosed(S)[s].channel = ses[s].channel
           /\ s \notin S => AllClosed(S)[s] = ses[s]
<1>1. ses[s] \in SessionRecord
  BY DEF TypeOK
<1> QED
  BY <1>1 DEF AllClosed, SessionRecord

LEMMA CreateRefusedCounts ==
    ASSUME IInv, CountInv, NEW c \in Channels, CreateRefused(c)
    PROVE  CountInv'
<1>1. /\ Evict /\ sessions' = sessions \ Evicted /\ tokens' = tokens \ Evicted
      /\ ses' = AllClosed(Evicted) /\ counter' = CounterAfterEviction
      /\ UNCHANGED <<created, actor, op>>
  BY DEF CreateRefused
<1>2. TypeOK /\ tokens \subseteq 1..created
  BY DEF IInv, TypeOK
<1>3. OpenWhileRunning'
  <2>1. \A s \in tokens' : ses'[s] = ses[s]
    BY <1>1, <1>2, ClosedAll
  <2> QED
    BY <1>1, <2>1, OpenKept DEF CountInv
<1> SUFFICES ASSUME ~hit' PROVE CallsRely' /\ CountsAgree'
  BY <1>3 DEF CountInv
<1>4. /\ CallsRely /\ CountsAgree
      /\ \A s \in Evicted : s \in 1..created /\ ~ses[s].user /\ ~InCall(s)
      /\ \A d \in Channels : CounterAfterEviction[d] = Cardinality(Counted(d) \ Evicted)
  BY <1>1, EvictionCounts
<1>5. \A s \in 1..created : ses'[s].user = ses[s].user /\ ses'[s].channel = ses[s].channel
  BY <1>1, <1>2, ClosedAll
<1>6. CallsRely'
  <2> SUFFICES ASSUME NEW d \in Channels, ~Idle(d)' PROVE Relies(d)'
    BY DEF CallsRely
  <2>1. op'[d] = op[d] /\ ~Idle(d)
    BY <1>1 DEF Idle
  <2>2. Relies(d) /\ op[d].id \in 1..created /\ op[d].id \notin Evicted
    BY <1>4, <2>1, CallNames DEF CallsRely, InCall
  <2> QED
    BY <1>1, <1>5, <2>1, <2>2, RelianceKept
<1>7. ASSUME NEW d \in Channels PROVE Counted(d)' = Counted(d) \ Evicted
  <2>1. \A s \in Evicted : ~(op[d].pc = "count" /\ op[d].id = s)
    BY <1>4 DEF InCall, Idle
  <2> QED
    BY <1>1, <1>5, <2>1 DEF Counted
<1>8. CountsAgree'
  BY <1>1, <1>4, <1>7 DEF CountsAgree
<1> QED
  BY <1>6, <1>8

LEMMA CreateCounts ==
    ASSUME IInv, CountInv, NEW c \in Channels, Create(c)
    PROVE  CountInv'
<1> DEFINE n == created + 1
<1>1. /\ Idle(c) /\ Evict /\ created' = n /\ CounterAfterEviction[c] < MaxUnactivated
      /\ sessions' = (sessions \ Evicted) \union {n} /\ tokens' = (tokens \ Evicted) \union {n}
      /\ ses' = [t \in 1..n |-> IF t = n THEN NewSession(c) ELSE AllClosed(Evicted)[t]]
      /\ actor' = [t \in 1..n |-> IF t = n THEN "running" ELSE actor[t]]
      /\ counter' = [CounterAfterEviction EXCEPT ![c] = (@ + 1) % CounterMod]
      /\ op' = op
  BY DEF Create
<1>2. TypeOK /\ tokens \subseteq 1..created /\ sessions \subseteq 1..created /\ created \in Nat
  BY DEF IInv, TypeOK
<1>3. /\ 1..n = (1..created) \union {n} /\ n \notin 1..created
      /\ \A t \in 1..created : t \in 1..n /\ t # n
  BY <1>2
<1> HIDE DEF n
<1>4. /\ ses'[n] = NewSession(c)
      /\ \A t \in 1..created : ses'[t] = AllClosed(Evicted)[t] /\ actor'[t] = actor[t]
  BY <1>1, <1>3
<1>5. \A t \in 1..created : /\ ses'[t].user = ses[t].user /\ ses'[t].channel = ses[t].channel
                            /\ t \notin Evicted => ses'[t] = ses[t]
  BY <1>2, <1>4, ClosedAll
<1>6. ~ses'[n].user /\ ses'[n].channel = c /\ ~ses'[n].closed
  BY <1>4 DEF NewSession
<1>7. OpenWhileRunning'
  <2> SUFFICES ASSUME NEW s \in tokens', actor'[s] = "running" PROVE ~ses'[s].closed
    BY DEF OpenWhileRunning
  <2>1. CASE s = n
    BY <1>6, <2>1
  <2>2. CASE s # n
    <3>1. s \in tokens /\ s \notin Evicted /\ s \in 1..created
      BY <1>1, <1>2, <2>2
    <3> QED
      BY <1>4, <1>5, <3>1 DEF CountInv, OpenWhileRunning
  <2> QED
    BY <2>1, <2>2
<1> SUFFICES ASSUME ~hit' PROVE CallsRely' /\ CountsAgree'
  BY <1>7 DEF CountInv
<1>8. /\ CallsRely /\ CountsAgree
      /\ \A s \in Evicted : s \in 1..created /\ ~ses[s].user /\ ~InCall(s)
      /\ \A d \in Channels : /\ CounterAfterEviction[d] = Cardinality(Counted(d) \ Evicted)
                             /\ IsFiniteSet(Counted(d) \ Evicted)
  BY <1>1, EvictionCounts
<1>9. CallsRely'
  <2> SUFFICES ASSUME NEW d \in Channels, ~Idle(d)' PROVE Relies(d)'
    BY DEF CallsRely
  <2>1. op'[d] = op[d] /\ ~Idle(d)
    BY <1>1 DEF Idle
  <2>2. Relies(d) /\ op[d].id \in 1..created /\ op[d].id \notin Evicted
    BY <1>8, <2>1, CallNames DEF CallsRely, InCall
  <2> QED
    BY <1>1, <1>5, <2>1, <2>2, RelianceKept
<1>10. ASSUME NEW d \in Channels
       PROVE  Counted(d)' = IF d = c THEN (Counted(d) \ Evicted) \union {n} ELSE Counted(d) \ Evicted
  <2>1. \A s \in Evicted : ~(op[d].pc = "count" /\ op[d].id = s)
    BY <1>8 DEF InCall, Idle
  <2>2. op[d].pc = "count" => op[d].id \in 1..created /\ op[d].id # n
    <3>1. op[d].pc = "count" => ~Idle(d)
      BY DEF Idle
    <3> QED
      BY <1>3, <3>1, CallNames
  <2>3. \A s \in 1..created : s \in Counted(d)' <=> s \in Counted(d) \ Evicted
    BY <1>1, <1>3, <1>5, <2>1 DEF Counted
  <2>4. n \in Counted(d)' <=> d = c
    BY <1>1, <1>3, <1>6, <2>2 DEF Counted
  <2>5. Counted(d)' \subseteq (1..created) \union {n} /\ Counted(d) \subseteq 1..created
    BY <1>1, <1>3 DEF Counted
  <2> QED
    BY <1>3, <2>3, <2>4, <2>5
<1>11. CounterAfterEviction \in [Channels -> 0..(CounterMod - 1)]
  BY <1>2, EvictionFacts
<1>12. ASSUME NEW d \in Channels PROVE counter'[d] = Cardinality(Counted(d)')
  <2>1. CASE d # c
    BY <1>1, <1>8, <1>10, <1>11, <2>1
  <2>2. CASE d = c
    <3>1. counter'[c] = (CounterAfterEviction[c] + 1) % CounterMod
      BY <1>1, <1>11
    <3>2. CounterAfterEviction[c] + 1 \in 0..(CounterMod - 1)
      BY <1>1, <1>11, SessionManagerAssumption
    <3>3. n \notin Counted(c) \ Evicted
      BY <1>3 DEF Counted
    <3>4. Cardinality((Counted(c) \ Evicted) \union {n}) = Cardinality(Counted(c) \ Evicted) + 1
      BY <1>8, <3>3, FS_AddElement
    <3> QED
      BY <1>8, <1>10, <2>2, <3>1, <3>2, <3>4, NoWrap
  <2> QED
    BY <2>1, <2>2
<1> QED
  BY <1>9, <1>12 DEF CountsAgree

\* The expiry task removes a set of sessions; those it counts down were counted,
\* unless a call on one of them was under way.
LEMMA ExpireSessionsCounts ==
    ASSUME IInv, CountInv, ExpireSessions
    PROVE  CountInv'
<1> DEFINE gone == monitor.expired \intersect sessions
<1>1. /\ sessions' = sessions \ gone /\ tokens' = tokens \ gone /\ ses' = AllClosed(gone)
      /\ counter' = [c \in Channels |->
           (counter[c] - Cardinality(Unactivated(gone, c))) % CounterMod]
      /\ hit' = (hit \/ \E s \in gone : InCall(s) \/ ses[s].closed)
      /\ UNCHANGED <<created, actor, op>>
  BY DEF ExpireSessions
<1>2. TypeOK /\ tokens \subseteq 1..created /\ gone \subseteq 1..created /\ gone \subseteq sessions
  BY DEF IInv, TypeOK
<1> HIDE DEF gone
<1>3. OpenWhileRunning'
  <2>1. \A s \in tokens' : ses'[s] = ses[s]
    BY <1>1, <1>2, ClosedAll
  <2> QED
    BY <1>1, <2>1, OpenKept DEF CountInv
<1> SUFFICES ASSUME ~hit' PROVE CallsRely' /\ CountsAgree'
  BY <1>3 DEF CountInv
<1>4. CallsRely /\ CountsAgree /\ \A s \in gone : ~InCall(s) /\ ~ses[s].closed
  BY <1>1 DEF CountInv
<1>5. \A s \in 1..created : ses'[s].user = ses[s].user /\ ses'[s].channel = ses[s].channel
  BY <1>1, <1>2, ClosedAll
<1>6. CallsRely'
  <2> SUFFICES ASSUME NEW d \in Channels, ~Idle(d)' PROVE Relies(d)'
    BY DEF CallsRely
  <2>1. op'[d] = op[d] /\ ~Idle(d)
    BY <1>1 DEF Idle
  <2>2. Relies(d) /\ op[d].id \in 1..created /\ op[d].id \notin gone
    BY <1>4, <2>1, CallNames DEF CallsRely, InCall
  <2> QED
    BY <1>1, <1>5, <2>1, <2>2, RelianceKept
<1>7. ASSUME NEW d \in Channels PROVE counter'[d] = Cardinality(Counted(d)')
  <2>1. \A s \in gone : ~(op[d].pc = "count" /\ op[d].id = s)
    BY <1>4 DEF InCall, Idle
  <2>2. Counted(d)' = Counted(d) \ gone
    BY <1>1, <1>5, <2>1 DEF Counted
  <2>3. Unactivated(gone, d) = Counted(d) \intersect gone
    BY <1>2, <1>4, <2>1 DEF Unactivated, Counted, IsActivated
  <2>4. Counted(d) \in SUBSET (1..created) /\ Counted(d) \ gone \in SUBSET (1..created)
    BY DEF Counted
  <2>5. /\ IsFiniteSet(Counted(d)) /\ Cardinality(Counted(d)) \in Nat
        /\ Cardinality(Counted(d) \ gone) \in Nat
    BY <1>2, <2>4, CountedFinite
  <2>6. Cardinality(Counted(d) \ gone) = Cardinality(Counted(d)) - Cardinality(Counted(d) \intersect gone)
    BY <2>5, FS_Difference
  <2>7. Counted(d) \intersect gone \in SUBSET (1..created)
    BY DEF Counted
  <2>8. Cardinality(Counted(d) \intersect gone) \in Nat
    BY <1>2, <2>7, CountedFinite
  <2>9. counter[d] = Cardinality(Counted(d)) /\ counter[d] \in 0..(CounterMod - 1)
    BY <1>2, <1>4 DEF CountsAgree, TypeOK
  <2>10. counter'[d] = (counter[d] - Cardinality(Counted(d) \intersect gone)) % CounterMod
    BY <1>1, <2>3
  <2>11. counter[d] - Cardinality(Counted(d) \intersect gone) \in 0..(CounterMod - 1)
    BY <2>5, <2>6, <2>8, <2>9, SessionManagerAssumption
  <2> QED
    BY <2>2, <2>6, <2>9, <2>10, <2>11, NoWrap
<1> QED
  BY <1>6, <1>7 DEF CountsAgree

LEMMA InitCounts == Init => CountInv
<1> SUFFICES ASSUME Init PROVE CountInv
  OBVIOUS
<1>1. \A c \in Channels : op[c].pc = "idle" /\ counter[c] = 0
  BY DEF Init, NoOp
<1>2. \A c \in Channels : Counted(c) = {}
  BY DEF Init, Counted
<1>3. Cardinality({}) = 0
  BY FS_EmptySet
<1> QED
  BY <1>1, <1>2, <1>3 DEF CountInv, OpenWhileRunning, CallsRely, CountsAgree, Idle, Init

LEMMA NextCounts == IInv /\ CountInv /\ [Next]_vars => CountInv'
<1> SUFFICES ASSUME IInv, CountInv, [Next]_vars PROVE CountInv'
  OBVIOUS
<1>1. ASSUME NEW c \in Channels, Call(c) PROVE CountInv'
  BY <1>1, CreateRefusedCounts, ActivateBeginCounts, CloseBeginCounts, ServiceCounts DEF Call
<1>2. CASE Panic
  BY <1>2, ActorPanicsCounts DEF Panic
<1>3. CASE Step
  <2>1. ASSUME NEW c \in Channels, Create(c) \/ Resume(c) \/ ActivateFail(c) PROVE CountInv'
    BY <2>1, CreateCounts, ActivateFailCounts, ActivateLockCounts, ActivateCommitCounts,
       ActivateCountCounts, CloseFinishCounts DEF Resume
  <2>2. ASSUME NEW s \in 1..created, ActorStep(s) PROVE CountInv'
    BY <2>2, ActorTerminatesCounts, ActorDroppedCounts, ActorCleanupCounts DEF ActorStep
  <2>3. ASSUME NEW s \in 1..created, ServiceEnd(s) PROVE CountInv'
    BY <2>3, FrameCounts DEF ServiceEnd, indexVars
  <2>4. CASE Scan
    BY <2>4, FrameCounts DEF Scan
  <2>5. CASE ExpireSessions
    BY <2>5, ExpireSessionsCounts
  <2>6. CASE Wake
    BY <2>6, FrameCounts DEF Wake, indexVars
  <2>7. CASE Tick
    BY <2>7, TickCounts
  <2> QED
    BY <1>3, <2>1, <2>2, <2>3, <2>4, <2>5, <2>6, <2>7 DEF Step, Monitor
<1>4. CASE UNCHANGED vars
  BY <1>4, FrameCounts DEF vars, indexVars
<1> QED
  BY <1>1, <1>2, <1>3, <1>4 DEF Next

\* unactivated_by_channel, against which CreateSession checks the limit, is the number
\* of unactivated sessions of the channel whenever no call is under way, although the
\* counter is lowered after the awaits of the calls; unless the expiry task or an
\* eviction removed a session beside a call on it.
THEOREM CountAlwaysExactUnlessHit == Spec => []CountExactUnlessHit
<1>1. IInv /\ CountInv => CountExactUnlessHit
  <2> SUFFICES ASSUME IInv, CountInv, ~hit, Quiescent, NEW c \in Channels
               PROVE  counter[c] = Cardinality(NeverActivated(c))
    BY DEF CountExactUnlessHit, UnactivatedCountExact
  <2>1. counter[c] = Cardinality(Counted(c)) /\ op[c].pc = "idle"
    BY DEF CountInv, CountsAgree, Quiescent, Idle
  <2>2. Counted(c) = {s \in 1..created : s \in sessions /\ ~ses[s].user /\ ses[s].channel = c}
    BY <2>1 DEF Counted
  <2>3. sessions \subseteq 1..created
    BY DEF IInv, TypeOK
  <2> QED
    BY <2>1, <2>2, <2>3 DEF NeverActivated
<1> QED
  BY <1>1, InitCounts, NextCounts, Invariance, PTL DEF Spec
=============================================================================
