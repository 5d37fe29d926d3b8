--------------------------- MODULE SessionManager ---------------------------
(***************************************************************************)
(* The sessions of a server (session/manager): CreateSession with the two  *)
(* limits and the eviction of an unactivated session, ActivateSession and  *)
(* CloseSession as the steps between their awaits, the task that expires   *)
(* sessions, and the actors that end sessions on their own.                *)
(*                                                                         *)
(* Each secure channel handles one of these three calls at a time          *)
(* (controller.rs awaits them inline).  A step that the code runs under    *)
(* the manager's lock is one action.  Time is kept as ages and as time     *)
(* left, so that it needs no bound.                                        *)
(***************************************************************************)
EXTENDS Integers, FiniteSets, FiniteSetsExt

CONSTANTS
    Channels,           \* secure channels, one controller each
    MaxId,              \* bound on the sessions created
    MaxCalls,           \* bound on the other calls and on panics of actors
    MaxSessions,        \* limits.max_sessions
    MaxUnactivated,     \* limits.max_unactivated_sessions_per_channel
    CounterMod,         \* usize::MAX + 1
    Timeout,            \* the revised session timeout
    UnactivatedTimeout, \* limits.unactivated_session_timeout_ms
    MaxTimeout,         \* max_session_timeout_ms
    TransferAllowed     \* the SecurityPolicy of the channels is not None

ASSUME SessionManagerAssumption ==
    /\ MaxId \in Nat /\ MaxCalls \in Nat /\ MaxSessions \in Nat /\ MaxUnactivated \in Nat
    /\ CounterMod \in Nat \ {0} /\ MaxUnactivated < CounterMod
    /\ Timeout \in Nat /\ MaxTimeout \in Nat /\ Timeout <= MaxTimeout
    /\ UnactivatedTimeout \in Nat
    /\ TransferAllowed \in BOOLEAN

Ids == 1..MaxId

NoOp == [pc |-> "idle"]
Captured(pc, s, was, prev) == [pc |-> pc, id |-> s, was |-> was, prev |-> prev, fresh |-> TRUE]

VARIABLES
    calls,      \* calls made so far other than the creations, and panics
    created,    \* sessions created so far: their ids are 1..created
    sessions,   \* the keys of `sessions`
    tokens,     \* sessions whose token is in `auth_tokens`
    senders,    \* sessions whose sender is in `actor_senders`
    ses,        \* the Session behind each Arc, which outlives its map entry
    actor,      \* none, running, closing (session closed, token kept), ended
    counter,    \* unactivated_by_channel
    expiryHeap, \* expiry_heap: sessions with the time left to the deadline
    unactHeap,  \* unactivated_heap: oldest session first, which is the least id
    op,         \* the call that each channel's controller is in
    serving,    \* sessions that a service handler has write-locked
    monitor,    \* the expiry task
    skipped,    \* history: heap entries dropped because a lock was held
    hit         \* history: a session was removed, or activated, beside another call on it

indexVars == <<created, sessions, tokens, senders, counter, expiryHeap, unactHeap>>
vars == <<indexVars, calls, ses, actor, op, serving, monitor, skipped, hit>>

SessionRecord == [user : BOOLEAN, closed : BOOLEAN, channel : Channels,
                  idle : 0..(Timeout + 1), age : 0..UnactivatedTimeout]
OpRecord == {NoOp} \union
    [pc : {"verify", "commit", "count", "terminate", "terminating", "closed"},
     id : Ids, was : BOOLEAN, prev : Channels, fresh : BOOLEAN]

TypeOK ==
    /\ created \in 0..MaxId /\ calls \in 0..MaxCalls
    /\ sessions \subseteq 1..created
    /\ tokens \subseteq 1..created /\ senders \subseteq 1..created
    /\ ses \in [1..created -> SessionRecord]
    /\ actor \in [1..created -> {"running", "closing", "ended"}]
    /\ counter \in [Channels -> 0..(CounterMod - 1)]
    /\ expiryHeap \subseteq [id : 1..created, due : 0..MaxTimeout]
    /\ unactHeap \subseteq 1..created
    /\ op \in [Channels -> OpRecord]
    /\ serving \subseteq 1..created
    /\ monitor \in [pc : {"scan", "expire", "sleep"}, expired : SUBSET (1..created),
                    wake : 0..MaxTimeout, notified : BOOLEAN]
    /\ skipped \subseteq {"expiry", "evict"} \X (1..created)
    /\ hit \in BOOLEAN

Init ==
    /\ created = 0 /\ calls = 0
    /\ sessions = {} /\ tokens = {} /\ senders = {}
    /\ ses = [s \in {} |-> NoOp]
    /\ actor = [s \in {} |-> "ended"]
    /\ counter = [c \in Channels |-> 0]
    /\ expiryHeap = {} /\ unactHeap = {}
    /\ op = [c \in Channels |-> NoOp]
    /\ serving = {}
    /\ monitor = [pc |-> "scan", expired |-> {}, wake |-> 0, notified |-> FALSE]
    /\ skipped = {} /\ hit = FALSE

-----------------------------------------------------------------------------
LeastOf(S) == CHOOSE x \in S : \A y \in S : x <= y

IsActivated(s) == ses[s].user /\ ~ses[s].closed

\* try_read fails while a writer holds the session.
Locked == serving \union {op[c].id : c \in {d \in Channels : op[d].pc = "commit"}}

Idle(c) == op[c].pc = "idle"
InCall(s) == \E c \in Channels : ~Idle(c) /\ op[c].id = s

\* Time left to Session::deadline and, for an unactivated session, to the
\* earlier of it and the deadline for activation.
TimeLeft(s) == IF Timeout > ses[s].idle THEN Timeout - ses[s].idle ELSE 0
UnactivatedTimeLeft(s) == LeastOf({TimeLeft(s), UnactivatedTimeout - ses[s].age})
ExpiryTimeLeft(s) == IF IsActivated(s) THEN TimeLeft(s) ELSE UnactivatedTimeLeft(s)

TimedOut(s) == ses[s].idle > Timeout

\* validate_timed_out restarts the period even when it refuses the request.
Touched(s) == [ses EXCEPT ![s].idle = 0]

\* fetch_sub on an unsigned counter wraps.
Decremented(cnt, c) == [cnt EXCEPT ![c] = (@ - 1) % CounterMod]

-----------------------------------------------------------------------------
(* commit_create_session_draft, under the manager's write lock. *)

\* Popping stops at the first session that can be evicted; what was popped
\* before it, and everything if there is none, is gone from the heap.
Evictable == {s \in unactHeap : s \in sessions /\ s \notin Locked /\ ~IsActivated(s)}
PoppedForEviction ==
    IF Evictable = {} THEN unactHeap ELSE {s \in unactHeap : s <= LeastOf(Evictable)}
SkippedForEviction == {s \in PoppedForEviction : s \in sessions /\ s \in Locked /\ ~IsActivated(s)}

AtLimit == Cardinality(sessions) >= MaxSessions
Evicted == IF AtLimit /\ Evictable # {} THEN {LeastOf(Evictable)} ELSE {}
CounterAfterEviction ==
    IF Evicted = {} THEN counter ELSE Decremented(counter, ses[LeastOf(Evicted)].channel)

LeftInHeap == IF AtLimit THEN unactHeap \ PoppedForEviction ELSE unactHeap

\* Mutant: the branch that evicts does not push the new session.
OfferedUnlessFull(s) == IF AtLimit THEN LeftInHeap ELSE unactHeap \union {s}

\* unactivated_heap once s has been created.
Offered(s) == LeftInHeap \union {s}

\* Mutant: the expiry task is not notified.
NotifiedNever == monitor

\* notify_waiters, which reaches the expiry task whether it scans or sleeps.
Notified == [monitor EXCEPT !.notified = TRUE]

\* The effects of an eviction, which stay when the call is refused after it.
Evict ==
    /\ skipped' = skipped \union (IF AtLimit THEN {"evict"} \X SkippedForEviction ELSE {})
    /\ hit' = (hit \/ \E s \in Evicted : InCall(s) \/ ses[s].closed)

NewSession(c) == [user |-> FALSE, closed |-> FALSE, channel |-> c, idle |-> 0, age |-> 0]
AllClosed(S) == [s \in 1..created |-> IF s \in S THEN [ses[s] EXCEPT !.closed = TRUE] ELSE ses[s]]

CreateRefused(c) ==
    /\ Idle(c)
    /\ \/ AtLimit /\ Evictable = {}
       \/ CounterAfterEviction[c] >= MaxUnactivated
    /\ Evict
    /\ unactHeap' = LeftInHeap
    /\ sessions' = sessions \ Evicted
    /\ tokens' = tokens \ Evicted
    /\ senders' = senders \ Evicted
    /\ ses' = AllClosed(Evicted)
    /\ counter' = CounterAfterEviction
    /\ UNCHANGED <<created, actor, expiryHeap, op, serving, monitor>>

\* The bound MaxId ends the creation of sessions.
Create(c) ==
    /\ Idle(c)
    /\ created < MaxId
    /\ AtLimit => Evictable # {}
    /\ CounterAfterEviction[c] < MaxUnactivated
    /\ Evict
    /\ created' = created + 1
    /\ LET s == created + 1 IN
         /\ sessions' = (sessions \ Evicted) \union {s}
         /\ tokens' = (tokens \ Evicted) \union {s}
         /\ senders' = (senders \ Evicted) \union {s}
         /\ ses' = [t \in 1..s |-> IF t = s THEN NewSession(c) ELSE AllClosed(Evicted)[t]]
         /\ actor' = [t \in 1..s |-> IF t = s THEN "running" ELSE actor[t]]
         /\ counter' = [CounterAfterEviction EXCEPT ![c] = (@ + 1) % CounterMod]
         /\ unactHeap' = Offered(s)
         /\ expiryHeap' = expiryHeap \union
              {[id |-> s, due |-> LeastOf({Timeout, UnactivatedTimeout})]}
    /\ monitor' = Notified
    /\ UNCHANGED <<op, serving>>

-----------------------------------------------------------------------------
(* activate_session *)

\* Under the manager's read lock: the values used after the awaits are taken.
ActivateBegin(c, s) ==
    /\ Idle(c)
    /\ s \in tokens /\ s \notin Locked
    /\ ses' = Touched(s)
    /\ op' = IF TimedOut(s) THEN op
             ELSE [op EXCEPT ![c] = Captured("verify", s, ~IsActivated(s), ses[s].channel)]
    /\ hit' = (hit \/ ses[s].closed)
    /\ UNCHANGED <<indexVars, actor, serving, monitor, skipped>>

\* The signature or the user is refused.
ActivateFail(c) ==
    /\ op[c].pc = "verify"
    /\ op' = [op EXCEPT ![c] = NoOp]
    /\ UNCHANGED <<indexVars, ses, actor, serving, monitor, skipped, hit>>

\* Authenticated: the session is write-locked.
ActivateLock(c) ==
    /\ op[c].pc = "verify"
    /\ op[c].id \notin Locked
    /\ op' = [op EXCEPT ![c].pc = "commit"]
    /\ UNCHANGED <<indexVars, ses, actor, serving, monitor, skipped, hit>>

TransferForbidden(c) ==
    /\ op[c].prev # c
    /\ op[c].was \/ ~TransferAllowed

\* session.activate does not look at is_closed.  The new nonce makes every
\* other activation of the session that is under way fail its nonce check.
ActivateCommit(c) ==
    /\ op[c].pc = "commit"
    /\ LET s == op[c].id IN
         IF TransferForbidden(c) \/ ~op[c].fresh
         THEN op' = [op EXCEPT ![c] = NoOp] /\ UNCHANGED ses
         ELSE /\ ses' = [ses EXCEPT ![s].user = TRUE, ![s].channel = c]
              /\ op' = [d \in Channels |->
                   IF d = c THEN IF op[c].was THEN [op[c] EXCEPT !.pc = "count"] ELSE NoOp
                   ELSE IF op[d].pc \in {"verify", "commit"} /\ op[d].id = s
                        THEN [op[d] EXCEPT !.fresh = FALSE] ELSE op[d]]
    /\ UNCHANGED <<indexVars, actor, serving, monitor, skipped, hit>>

\* Under the manager's read lock again; the expiry task is not notified.
ActivateCount(c) ==
    /\ op[c].pc = "count"
    /\ op[c].id \notin Locked
    /\ counter' = Decremented(counter, op[c].prev)
    /\ expiryHeap' = expiryHeap \union {[id |-> op[c].id, due |-> TimeLeft(op[c].id)]}
    /\ op' = [op EXCEPT ![c] = NoOp]
    /\ UNCHANGED <<created, sessions, tokens, senders, unactHeap, ses, actor, serving,
                   monitor, skipped, hit>>

-----------------------------------------------------------------------------
(* close_session and the session's actor *)

CloseBegin(c, s) ==
    /\ Idle(c)
    /\ s \in tokens /\ s \in senders /\ s \notin Locked
    /\ actor[s] = "running"
    /\ IsActivated(s) \/ ses[s].channel = c
    /\ op' = [op EXCEPT ![c] = Captured("terminate", s, ~IsActivated(s), ses[s].channel)]
    /\ UNCHANGED <<indexVars, ses, actor, serving, monitor, skipped, hit>>

Waiting(c, s) == op[c].pc = "terminate" /\ op[c].id = s

\* The actor takes a Terminate, or a handler panics in it (abort_after_panic):
\* the session is closed, the token stays until the cleanup.
ActorCloses(s) ==
    /\ actor[s] = "running" /\ s \notin Locked
    /\ actor' = [actor EXCEPT ![s] = "closing"]
    /\ ses' = [ses EXCEPT ![s].closed = TRUE]
    /\ UNCHANGED <<indexVars, serving, monitor, skipped, hit>>

ActorTerminates(s, c) ==
    /\ Waiting(c, s)
    /\ ActorCloses(s)
    /\ op' = [op EXCEPT ![c].pc = "terminating"]

ActorPanics(s) ==
    /\ ses[s].user
    /\ ActorCloses(s)
    /\ UNCHANGED op

\* All senders are dropped: the session is closed and without token already.
ActorDropped(s) ==
    /\ actor[s] = "running" /\ s \notin senders /\ s \notin Locked
    /\ \A c \in Channels : ~Waiting(c, s)
    /\ actor' = [actor EXCEPT ![s] = "ended"]
    /\ ses' = [ses EXCEPT ![s].closed = TRUE]
    /\ UNCHANGED <<indexVars, op, serving, monitor, skipped, hit>>

\* Mutant: the token stays in auth_tokens.
ActorCleanupKeepsToken(s) ==
    /\ actor[s] = "closing"
    /\ actor' = [actor EXCEPT ![s] = "ended"]
    /\ senders' = senders \ {s}
    /\ op' = [c \in Channels |->
         IF op[c].pc = "terminating" /\ op[c].id = s THEN [op[c] EXCEPT !.pc = "closed"]
         ELSE IF Waiting(c, s) THEN NoOp ELSE op[c]]
    /\ UNCHANGED <<created, sessions, tokens, counter, expiryHeap, unactHeap, ses, serving,
                   monitor, skipped, hit>>

\* The cleanup of the actor, then the acknowledgement; other calls that wait
\* for this actor find their acknowledgement dropped.
ActorCleanup(s) ==
    /\ actor[s] = "closing"
    /\ actor' = [actor EXCEPT ![s] = "ended"]
    /\ tokens' = tokens \ {s}
    /\ senders' = senders \ {s}
    /\ op' = [c \in Channels |->
         IF op[c].pc = "terminating" /\ op[c].id = s THEN [op[c] EXCEPT !.pc = "closed"]
         ELSE IF Waiting(c, s) THEN NoOp ELSE op[c]]
    /\ UNCHANGED <<created, sessions, counter, expiryHeap, unactHeap, ses, serving, monitor,
                   skipped, hit>>

\* Mutant: the counter is lowered for a session that was activated too.
CloseFinishAlways(c) ==
    /\ op[c].pc = "closed"
    /\ counter' = Decremented(counter, op[c].prev)
    /\ sessions' = sessions \ {op[c].id}
    /\ op' = [op EXCEPT ![c] = NoOp]
    /\ UNCHANGED <<created, tokens, senders, expiryHeap, unactHeap, ses, actor, serving,
                   monitor, skipped, hit>>

\* Back under the manager's write lock, with what CloseBegin captured.
CloseFinish(c) ==
    /\ op[c].pc = "closed"
    /\ counter' = IF op[c].was THEN Decremented(counter, op[c].prev) ELSE counter
    /\ sessions' = sessions \ {op[c].id}
    /\ op' = [op EXCEPT ![c] = NoOp]
    /\ UNCHANGED <<created, tokens, senders, expiryHeap, unactHeap, ses, actor, serving,
                   monitor, skipped, hit>>

-----------------------------------------------------------------------------
(* Other services: validate_request, and handlers that write-lock the session *)

Service(c, s) ==
    /\ s \in tokens /\ s \notin Locked
    /\ IsActivated(s) /\ ses[s].channel = c
    /\ ses' = Touched(s)
    /\ serving' \in {serving, IF TimedOut(s) THEN serving ELSE serving \union {s}}
    /\ UNCHANGED <<indexVars, actor, op, monitor, skipped, hit>>

ServiceEnd(s) ==
    /\ s \in serving
    /\ serving' = serving \ {s}
    /\ UNCHANGED <<indexVars, ses, actor, op, monitor, skipped, hit>>

-----------------------------------------------------------------------------
(* run_session_expiry *)

\* check_session_expiry: an entry that is due is popped; its session is gone,
\* or locked, or has more time (a new entry is pushed), or has expired.
DueNow == {e.id : e \in {f \in expiryHeap : f.due = 0}} \intersect sessions
ExpiredNow == {s \in DueNow \ Locked : ExpiryTimeLeft(s) = 0}
SkippedByScan == DueNow \intersect Locked
\* Mutant: a session with time left is not pushed again.
HeapAfterScanForgets == {e \in expiryHeap : e.due > 0}

HeapAfterScan ==
    {e \in expiryHeap : e.due > 0} \union
    {[id |-> s, due |-> ExpiryTimeLeft(s)] : s \in (DueNow \ Locked) \ ExpiredNow}

Scan ==
    /\ monitor.pc = "scan"
    /\ expiryHeap' = HeapAfterScan
    /\ monitor' = [pc |-> IF ExpiredNow = {} THEN "sleep" ELSE "expire", expired |-> ExpiredNow,
                   wake |-> LeastOf({MaxTimeout} \union {e.due : e \in HeapAfterScan}),
                   notified |-> FALSE]
    /\ skipped' = skipped \union ({"expiry"} \X SkippedByScan)
    /\ UNCHANGED <<created, sessions, tokens, senders, counter, unactHeap, ses, actor, op,
                   serving, hit>>

\* expire_session for each session of the list, which is not checked again.
Unactivated(S, c) == {s \in S : ~IsActivated(s) /\ ses[s].channel = c}
ExpireSessions ==
    LET gone == monitor.expired \intersect sessions IN
    /\ monitor.pc = "expire"
    /\ gone \intersect Locked = {}
    /\ sessions' = sessions \ gone
    /\ tokens' = tokens \ gone
    /\ senders' = senders \ gone
    /\ counter' = [c \in Channels |->
         (counter[c] - Cardinality(Unactivated(gone, c))) % CounterMod]
    /\ ses' = AllClosed(gone)
    /\ hit' = (hit \/ \E s \in gone : InCall(s) \/ ses[s].closed)
    /\ monitor' = [monitor EXCEPT !.pc = "sleep", !.expired = {}]
    /\ UNCHANGED <<created, expiryHeap, unactHeap, actor, op, serving, skipped>>

Wake ==
    /\ monitor.pc = "sleep"
    /\ monitor.wake = 0 \/ monitor.notified
    /\ monitor' = [monitor EXCEPT !.pc = "scan"]
    /\ UNCHANGED <<indexVars, ses, actor, op, serving, skipped, hit>>

LessOne(n) == IF n = 0 THEN 0 ELSE n - 1

\* The age of a session that no map and no call refers to no longer matters.
Tick ==
    /\ ses' = [s \in 1..created |->
         IF s \notin sessions /\ ~InCall(s) THEN ses[s] ELSE
         [ses[s] EXCEPT !.idle = LeastOf({@ + 1, Timeout + 1}),
                        !.age = LeastOf({@ + 1, UnactivatedTimeout})]]
    /\ expiryHeap' = {[e EXCEPT !.due = LessOne(@)] : e \in expiryHeap}
    /\ monitor' = [monitor EXCEPT !.wake = LessOne(@)]
    /\ UNCHANGED <<created, sessions, tokens, senders, counter, unactHeap, actor, op, serving,
                   skipped, hit>>

-----------------------------------------------------------------------------
Call(c) ==
    /\ calls < MaxCalls
    /\ calls' = calls + 1
    /\ \/ CreateRefused(c)
       \/ \E s \in 1..created :
            ActivateBegin(c, s) \/ CloseBegin(c, s) \/ Service(c, s)

Resume(c) == ActivateLock(c) \/ ActivateCommit(c) \/ ActivateCount(c) \/ CloseFinish(c)

ActorStep(s) ==
    \/ \E c \in Channels : ActorTerminates(s, c)
    \/ ActorDropped(s)
    \/ ActorCleanup(s)

Monitor == Scan \/ ExpireSessions \/ Wake

Step ==
    \/ \E c \in Channels : Create(c) \/ Resume(c) \/ ActivateFail(c)
    \/ \E s \in 1..created : ActorStep(s) \/ ServiceEnd(s)
    \/ Monitor
    \/ Tick

Panic ==
    /\ calls < MaxCalls
    /\ calls' = calls + 1
    /\ \E s \in 1..created : ActorPanics(s)

Next ==
    \/ \E c \in Channels : Call(c)
    \/ Panic
    \/ Step /\ UNCHANGED calls

Spec == Init /\ [][Next]_vars

-----------------------------------------------------------------------------
(* Properties *)

\* A token that find_by_token answers for belongs to a session in the map, so
\* a request is never served for a session that was evicted, expired or
\* removed; and a session in the map that has no token is on its way out: its
\* actor closed it.
TokensNameSessions ==
    /\ tokens \subseteq sessions
    /\ senders = tokens
    /\ \A s \in sessions \ tokens : ses[s].closed /\ actor[s] = "ended"

\* check_session_expiry can find every session: the heap holds an entry for
\* it that comes due no later than the session does, or the expiry task has it
\* on its list.  (Entries dropped because the session was locked are the
\* exception, recorded in `skipped`.)
HeapCoversSessions ==
    \A s \in sessions :
      \/ <<"expiry", s>> \in skipped
      \/ s \in monitor.expired
      \/ \E e \in expiryHeap :
           e.id = s /\ e.due <= (IF ses[s].user THEN TimeLeft(s) ELSE UnactivatedTimeLeft(s))

\* The expiry task never sleeps past the first deadline in the heap, although
\* ActivateSession pushes an entry without notifying it.
WakesInTime ==
    monitor.pc = "sleep" /\ ~monitor.notified =>
      \A e \in expiryHeap :
        e.id \in sessions /\ <<"expiry", e.id>> \notin skipped => monitor.wake <= e.due

\* A full server can evict every session that was never activated: it is in
\* unactivated_heap, unless it was locked when the heap was searched.
EvictionCovers ==
    \A s \in sessions : ses[s].user \/ <<"evict", s>> \in skipped \/ s \in unactHeap

Quiescent == \A c \in Channels : Idle(c)
NeverActivated(c) == {s \in sessions : ~ses[s].user /\ ses[s].channel = c}

\* While no call is under way, unactivated_by_channel is the number of
\* unactivated sessions of the channel.
UnactivatedCountExact ==
    Quiescent => \A c \in Channels : counter[c] = Cardinality(NeverActivated(c))

\* The same, as long as no session was removed by the expiry task or by an
\* eviction while a call on it was under way or after its actor closed it.
CountExactUnlessHit == ~hit => UnactivatedCountExact
=============================================================================
