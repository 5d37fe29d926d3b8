------------------------- MODULE SubscriptionCache --------------------------
(***************************************************************************)
(* The registry of all subscriptions of a server                           *)
(* (async-opcua-server/src/subscriptions/mod.rs) and the actors behind it  *)
(* (actor.rs).  A call of the cache looks up the handle of an actor under  *)
(* the read lock, sends it a command, awaits the reply and updates the     *)
(* indexes under the write lock; other calls, timers, producers of         *)
(* notifications and the cleanup task run in between.                      *)
(*                                                                         *)
(* A subscription has at most one monitored item, and all items watch the  *)
(* same node.  Both sessions belong to one user, so that user_token_matches*)
(* holds; it is one more round trip to the source that changes nothing.    *)
(***************************************************************************)
EXTENDS Naturals, Sequences, FiniteSets

CONSTANTS
    Sessions,       \* session ids
    Callers,        \* service calls that may be in flight together
    CallKinds,      \* calls that clients make
    MaxSubs,        \* bound on subscriptions created; ids are 1..MaxSubs
    MaxPerSession,  \* limits.max_subscriptions_per_session
    MaxActors,      \* bound on actors spawned
    MaxCalls,       \* bound on calls started
    MaxValues,      \* bound on values published by producers
    RingCapacity,   \* NOTIFICATION_RING_CAPACITY
    Expiry,         \* whether subscriptions run out of lifetime
    Retires         \* whether an actor without subscriptions reports itself ready_to_delete

ASSUME CacheAssumption ==
    /\ CallKinds \subseteq {"Create", "CreateItem", "Delete", "Close", "Transfer"}
    /\ {MaxSubs, MaxPerSession, MaxActors, MaxCalls, MaxValues} \subseteq Nat
    /\ RingCapacity \in Nat \ {0}
    /\ Expiry \in BOOLEAN /\ Retires \in BOOLEAN

VARIABLES
    entry,      \* session_subscriptions: session -> actor
    owner,      \* subscription_to_session
    watched,    \* monitored_items: subscriptions with an item in the reverse index
    actors,     \* the actors spawned so far
    cleanup,    \* the channel of run_cleanup
    calls,      \* the calls in flight, by caller
    producer,   \* routes of the value being published, as <<actor, subscription>>
    created,    \* subscriptions created so far
    started,    \* calls started so far
    value,      \* values published so far
    routed,     \* history: values pushed for a subscription
    dropped     \* history: values that met a full ring

cache == <<entry, owner, watched>>
history == <<routed, dropped>>
vars == <<cache, actors, cleanup, calls, producer, created, started, value, history>>

SubIds == 1..MaxSubs
ActorIds == DOMAIN actors

Sub == [item : BOOLEAN, closed : BOOLEAN, received : SUBSET (1..MaxValues)]
NewSub == [item |-> FALSE, closed |-> FALSE, received |-> {}]

Ops == {"Create", "CreateItem", "GetIds", "Delete", "GetData", "Clone", "Insert", "Mark", "Complete"}

Reply == [ok : BOOLEAN, ids : SUBSET SubIds, items : SUBSET SubIds, copy : Sub]
Failed == [ok |-> FALSE, ids |-> {}, items |-> {}, copy |-> NewSub]
Good == [Failed EXCEPT !.ok = TRUE]

\* A call: what the client asked for, the command it is at, how far that command
\* is, the actor that gets it and, in a transfer, the two actors.
Call == [kind : CallKinds, session : Sessions, sub : 0..MaxSubs, op : Ops,
         pc : {"lookup", "send", "sent", "replied"}, actor : 0..MaxActors,
         source : 0..MaxActors, dest : 0..MaxActors, ids : SUBSET SubIds, reply : Reply]

\* An actor's state as far as the cache can tell.
Actor(s) == [session |-> s, subs |-> [i \in {} |-> NewSub], transferring |-> {},
             mail |-> <<>>, ring |-> <<>>, alive |-> TRUE]

Message == [op : Ops \cup {"Stop"}, by : Callers \cup {"cache"}]
Subscriptions == UNION {[ids -> Sub] : ids \in SUBSET SubIds}
ActorState == [session : Sessions, subs : Subscriptions, transferring : SUBSET SubIds,
               mail : Seq(Message), ring : Seq(SubIds \X (1..MaxValues)), alive : BOOLEAN]
CleanupMessage == [session : Sessions, ids : SUBSET SubIds, items : SUBSET SubIds, ready : BOOLEAN]

TypeOK ==
    /\ DOMAIN entry \subseteq Sessions /\ \A s \in DOMAIN entry : entry[s] \in ActorIds
    /\ DOMAIN owner \subseteq SubIds /\ \A id \in DOMAIN owner : owner[id] \in Sessions
    /\ watched \subseteq SubIds
    /\ actors \in Seq(ActorState) /\ Len(actors) <= MaxActors
    /\ \A a \in ActorIds :
         /\ Cardinality(DOMAIN actors[a].subs) <= MaxPerSession
         /\ Len(actors[a].ring) <= RingCapacity
    /\ cleanup \in Seq(CleanupMessage)
    /\ DOMAIN calls \subseteq Callers /\ \A c \in DOMAIN calls : calls[c] \in Call
    /\ producer \subseteq ActorIds \X SubIds
    /\ created \in 0..MaxSubs /\ started \in 0..MaxCalls /\ value \in 0..MaxValues
    /\ routed \in [SubIds -> SUBSET (1..MaxValues)]
    /\ dropped \in [SubIds -> SUBSET (1..MaxValues)]

Init ==
    /\ entry = [s \in {} |-> 0]
    /\ owner = [i \in {} |-> 0]
    /\ watched = {}
    /\ actors = <<>>
    /\ cleanup = <<>>
    /\ calls = [c \in {} |-> Failed]
    /\ producer = {}
    /\ created = 0
    /\ started = 0
    /\ value = 0
    /\ routed = [i \in SubIds |-> {}]
    /\ dropped = [i \in SubIds |-> {}]

-----------------------------------------------------------------------------
Drop(f, S) == [x \in DOMAIN f \ S |-> f[x]]
Put(f, x, y) == [z \in DOMAIN f \cup {x} |-> IF z = x THEN y ELSE f[z]]

Items(subs) == {id \in DOMAIN subs : subs[id].item}

\* A command is put into the channel of an actor; the call awaits its reply.  The
\* channel of an actor that has ended is closed.
Posted(as, a, message) ==
    IF as[a].alive THEN [as EXCEPT ![a].mail = Append(@, message)] ELSE as

SendCommand(c, call) ==
    /\ actors' = Posted(actors, call.actor, [op |-> call.op, by |-> c])
    /\ calls' = IF actors[call.actor].alive THEN [calls EXCEPT ![c] = [call EXCEPT !.pc = "sent"]]
                ELSE [calls EXCEPT ![c] = [call EXCEPT !.pc = "replied", !.reply = Failed]]

EndCall(c) == calls' = Drop(calls, {c})

Begin(c, kind, s, id, op) ==
    /\ c \notin DOMAIN calls
    /\ kind \in CallKinds
    /\ started < MaxCalls
    /\ started' = started + 1
    /\ calls' = Put(calls, c, [kind |-> kind, session |-> s, sub |-> id, op |-> op,
                               pc |-> "lookup", actor |-> 0, source |-> 0, dest |-> 0,
                               ids |-> {}, reply |-> Failed])
    /\ UNCHANGED <<cache, actors, cleanup, producer, value, history>>

\* The handle of the session's actor, or the call fails with BadNoSubscription.
LookupHandle(c) ==
    LET call == calls[c]
    IN  /\ IF call.session \in DOMAIN entry
             THEN calls' = [calls EXCEPT ![c].actor = entry[call.session], ![c].pc = "send"]
             ELSE EndCall(c)
        /\ UNCHANGED <<cache, actors, cleanup, producer, created, started, value, history>>

\* The first command of a call leaves after the lock has been released.
Send(c) ==
    /\ calls[c].pc = "send"
    /\ SendCommand(c, calls[c])
    /\ UNCHANGED <<cache, cleanup, producer, created, started, value, history>>

At(c, op, pc) == calls[c].op = op /\ calls[c].pc = pc

-----------------------------------------------------------------------------
(***************************************************************************)
(* The actor.                                                              *)
(***************************************************************************)
\* Mutant: the drain stops after one item and forgets the others.
DrainedOne(act) ==
    [act EXCEPT !.ring = <<>>,
                !.subs = [id \in DOMAIN act.subs |->
                            [act.subs[id] EXCEPT !.received =
                               IF act.subs[id].item /\ act.ring # <<>> /\ act.ring[1][1] = id
                                 THEN @ \cup {act.ring[1][2]} ELSE @]]]

\* drain_ring: every handler starts with it.
Drained(act) ==
    [act EXCEPT !.ring = <<>>,
                !.subs = [id \in DOMAIN act.subs |->
                            [act.subs[id] EXCEPT !.received =
                               IF act.subs[id].item
                                 THEN @ \cup {act.ring[i][2] : i \in {j \in DOMAIN act.ring :
                                                                       act.ring[j][1] = id}}
                                 ELSE @]]]

\* What a command does to the actor and what it answers.
Apply(act, call) ==
    LET id == call.sub
        full == Cardinality(DOMAIN act.subs) >= MaxPerSession
        held == id \in DOMAIN act.subs
        gone == call.ids \cap DOMAIN act.subs
        refused == [act |-> act, reply |-> Failed]
    IN  CASE call.op = "Create" ->
               IF full THEN refused
               ELSE [act |-> [act EXCEPT !.subs = Put(act.subs, id, NewSub)], reply |-> Good]
          [] call.op = "CreateItem" ->
               IF ~held THEN refused
               ELSE [act |-> [act EXCEPT !.subs[id].item = TRUE], reply |-> Good]
          [] call.op = "GetIds" ->
               [act |-> act, reply |-> [Good EXCEPT !.ids = DOMAIN act.subs]]
          [] call.op = "GetData" ->
               [act |-> act,
                reply |-> [Good EXCEPT !.ids = DOMAIN act.subs, !.items = Items(act.subs)]]
          [] call.op = "Delete" ->
               [act |-> [act EXCEPT !.subs = Drop(act.subs, gone)],
                reply |-> [Good EXCEPT !.ids = gone, !.items = gone \cap Items(act.subs)]]
          [] call.op = "Clone" ->
               IF ~held THEN refused
               ELSE [act |-> act, reply |-> [Good EXCEPT !.copy = act.subs[id]]]
          [] call.op = "Insert" ->
               IF full THEN refused
               ELSE [act |-> [act EXCEPT !.subs = Put(act.subs, id, call.reply.copy),
                                         !.transferring = @ \ {id}],
                     reply |-> Good]
          [] call.op = "Mark" ->
               IF ~held THEN refused
               ELSE [act |-> [act EXCEPT !.transferring = @ \cup {id}], reply |-> Good]
          [] call.op = "Complete" ->
               [act |-> [act EXCEPT !.subs = Drop(act.subs, {id}), !.transferring = @ \ {id}],
                reply |-> Good]

\* Callers whose commands are lost with the channel of actor a.
Abandoned(a) == {actors[a].mail[i].by : i \in 2..Len(actors[a].mail)} \ {"cache"}

\* The command arm of run, for a command of a call.
HandleCommand(a) ==
    /\ actors[a].alive
    /\ actors[a].mail # <<>>
    /\ Head(actors[a].mail).op # "Stop"
    /\ LET c == Head(actors[a].mail).by
           done == Apply(Drained(actors[a]), calls[c])
       IN  /\ actors' = [actors EXCEPT ![a] = [done.act EXCEPT !.mail = Tail(@)]]
           /\ calls' = [calls EXCEPT ![c].pc = "replied", ![c].reply = done.reply]
    /\ UNCHANGED <<cache, cleanup, producer, created, started, value, history>>

\* Mutant: the callers behind Stop are never answered.
HandleStopSilent(a) ==
    /\ actors[a].alive
    /\ actors[a].mail # <<>>
    /\ Head(actors[a].mail).op = "Stop"
    /\ actors' = [actors EXCEPT ![a].alive = FALSE, ![a].mail = <<>>]
    /\ UNCHANGED <<cache, calls, cleanup, producer, created, started, value, history>>

\* Stop ends the actor; the commands behind it are dropped with their replies.
HandleStop(a) ==
    /\ actors[a].alive
    /\ actors[a].mail # <<>>
    /\ Head(actors[a].mail).op = "Stop"
    /\ actors' = [actors EXCEPT ![a].alive = FALSE, ![a].mail = <<>>]
    /\ calls' = [c \in DOMAIN calls |->
                   IF c \in Abandoned(a) THEN [calls[c] EXCEPT !.pc = "replied", !.reply = Failed]
                   ELSE calls[c]]
    /\ UNCHANGED <<cache, cleanup, producer, created, started, value, history>>

\* The wake arm: a notification was pushed.
Wake(a) ==
    /\ actors[a].alive
    /\ actors[a].ring # <<>>
    /\ actors' = [actors EXCEPT ![a] = Drained(actors[a])]
    /\ UNCHANGED <<cache, cleanup, calls, producer, created, started, value, history>>

\* The timer arm: subscriptions that are not being transferred may expire, which
\* drops their items; the cleanup task is told of them.
TimerExpires(a) ==
    /\ Expiry
    /\ actors[a].alive
    /\ LET act == Drained(actors[a])
       IN  \E gone \in SUBSET {id \in DOMAIN act.subs \ act.transferring : ~act.subs[id].closed} :
             /\ gone # {}
             /\ actors' = [actors EXCEPT ![a] =
                  [act EXCEPT !.subs = [id \in DOMAIN act.subs |->
                     IF id \in gone THEN [act.subs[id] EXCEPT !.closed = TRUE, !.item = FALSE]
                     ELSE act.subs[id]]]]
             /\ cleanup' = Append(cleanup, [session |-> act.session, ids |-> gone,
                                            items |-> gone \cap Items(act.subs), ready |-> FALSE])
    /\ UNCHANGED <<cache, calls, producer, created, started, value, history>>

\* The timer arm of an actor that is_ready_to_delete: it has no subscriptions, no
\* publish requests and no status changes.  Its timer is an hour long and restarts
\* with every command, so that it has not fired again before the cleanup task runs.
TimerRetires(a) ==
    /\ Retires
    /\ actors[a].alive
    /\ DOMAIN actors[a].subs = {}
    /\ ~\E i \in DOMAIN cleanup : cleanup[i].ready /\ cleanup[i].session = actors[a].session
    /\ actors' = [actors EXCEPT ![a] = Drained(actors[a])]
    /\ cleanup' = Append(cleanup, [session |-> actors[a].session, ids |-> {}, items |-> {},
                                   ready |-> TRUE])
    /\ UNCHANGED <<cache, calls, producer, created, started, value, history>>

\* A closed subscription leaves the actor once its last message has been sent.
RemoveReady(a) ==
    /\ actors[a].alive
    /\ \E id \in DOMAIN actors[a].subs \ actors[a].transferring :
         /\ actors[a].subs[id].closed
         /\ actors' = [actors EXCEPT ![a].subs = Drop(@, {id})]
    /\ UNCHANGED <<cache, cleanup, calls, producer, created, started, value, history>>

-----------------------------------------------------------------------------
(***************************************************************************)
(* The calls.                                                              *)
(***************************************************************************)
\* cleanup_removed_subscriptions, under the write lock.
Deregister(ids, items) ==
    /\ owner' = Drop(owner, ids)
    /\ watched' = watched \ items

\* The session's entry, created with a new actor if there is none: the lookup of
\* create_subscription, and ensure_session_entry.
EnsureEntry(s) ==
    /\ s \in DOMAIN entry \/ Len(actors) < MaxActors
    /\ actors' = IF s \in DOMAIN entry THEN actors ELSE Append(actors, Actor(s))
    /\ entry' = IF s \in DOMAIN entry THEN entry ELSE Put(entry, s, Len(actors'))

\* create_subscription
BeginCreate(c, s) ==
    /\ created < MaxSubs
    /\ created' = created + 1
    /\ Begin(c, "Create", s, created + 1, "Create")

LookupCreate(c) ==
    /\ At(c, "Create", "lookup")
    /\ EnsureEntry(calls[c].session)
    /\ calls' = [calls EXCEPT ![c].actor = entry'[calls[c].session], ![c].pc = "send"]
    /\ UNCHANGED <<owner, watched, cleanup, producer, created, started, value, history>>

FinishCreate(c) ==
    /\ At(c, "Create", "replied")
    /\ owner' = IF calls[c].reply.ok THEN Put(owner, calls[c].sub, calls[c].session) ELSE owner
    /\ EndCall(c)
    /\ UNCHANGED <<entry, watched, actors, cleanup, producer, created, started, value, history>>

\* create_monitored_items
BeginCreateItem(c, s, id) ==
    /\ id <= created
    /\ Begin(c, "CreateItem", s, id, "CreateItem")
    /\ UNCHANGED created

LookupCreateItem(c) == At(c, "CreateItem", "lookup") /\ LookupHandle(c)

FinishCreateItem(c) ==
    /\ At(c, "CreateItem", "replied")
    /\ watched' = IF calls[c].reply.ok THEN watched \cup {calls[c].sub} ELSE watched
    /\ EndCall(c)
    /\ UNCHANGED <<entry, owner, actors, cleanup, producer, created, started, value, history>>

\* delete_subscriptions for one id; delete_session_subscriptions of the message
\* handler deletes all of them and then tears the session down.
BeginDelete(c, s, id) ==
    /\ id <= created
    /\ Begin(c, "Delete", s, id, "Delete")
    /\ UNCHANGED created

LookupDelete(c) ==
    /\ At(c, "Delete", "lookup")
    /\ IF calls[c].session \in DOMAIN entry
         THEN calls' = [calls EXCEPT ![c].actor = entry[calls[c].session], ![c].pc = "send",
                                     ![c].ids = IF calls[c].kind = "Delete" THEN {calls[c].sub} ELSE @]
         ELSE IF calls[c].kind = "Delete" THEN EndCall(c)
         ELSE calls' = [calls EXCEPT ![c].op = "GetData"]
    /\ UNCHANGED <<cache, actors, cleanup, producer, created, started, value, history>>

\* Mutant: the ids that were asked for are deregistered, not those the actor removed.
FinishDeleteAsked(c) ==
    /\ At(c, "Delete", "replied")
    /\ Deregister(calls[c].ids, calls[c].reply.items)
    /\ IF calls[c].kind = "Delete" THEN EndCall(c)
       ELSE calls' = [calls EXCEPT ![c].op = "GetData", ![c].pc = "lookup"]
    /\ UNCHANGED <<entry, actors, cleanup, producer, created, started, value, history>>

\* Mutant: the route of a deleted subscription stays.
FinishDeleteKeepsRoute(c) ==
    /\ At(c, "Delete", "replied")
    /\ Deregister({}, calls[c].reply.items)
    /\ IF calls[c].kind = "Delete" THEN EndCall(c)
       ELSE calls' = [calls EXCEPT ![c].op = "GetData", ![c].pc = "lookup"]
    /\ UNCHANGED <<entry, actors, cleanup, producer, created, started, value, history>>

FinishDelete(c) ==
    /\ At(c, "Delete", "replied")
    /\ Deregister(calls[c].reply.ids, calls[c].reply.items)
    /\ IF calls[c].kind = "Delete" THEN EndCall(c)
       ELSE calls' = [calls EXCEPT ![c].op = "GetData", ![c].pc = "lookup"]
    /\ UNCHANGED <<entry, actors, cleanup, producer, created, started, value, history>>

\* CloseSession with deleteSubscriptions: get_session_subscription_ids first.
BeginClose(c, s) == Begin(c, "Close", s, 0, "GetIds") /\ UNCHANGED created

LookupIds(c) ==
    /\ At(c, "GetIds", "lookup")
    /\ calls' = IF calls[c].session \in DOMAIN entry
                  THEN [calls EXCEPT ![c].actor = entry[calls[c].session], ![c].pc = "send"]
                  ELSE [calls EXCEPT ![c].op = "GetData"]
    /\ UNCHANGED <<cache, actors, cleanup, producer, created, started, value, history>>

FinishIds(c) ==
    /\ At(c, "GetIds", "replied")
    /\ calls' = [calls EXCEPT ![c].pc = "lookup", ![c].ids = calls[c].reply.ids,
                              ![c].op = IF calls[c].reply.ids = {} THEN "GetData" ELSE "Delete"]
    /\ UNCHANGED <<cache, actors, cleanup, producer, created, started, value, history>>

\* teardown_session: the entry goes first, the indexes after the actor's answer,
\* then the actor is stopped.
LookupTeardown(c) ==
    /\ At(c, "GetData", "lookup")
    /\ IF calls[c].session \in DOMAIN entry
         THEN calls' = [calls EXCEPT ![c].actor = entry[calls[c].session], ![c].pc = "send"]
         ELSE EndCall(c)
    /\ entry' = Drop(entry, {calls[c].session})
    /\ UNCHANGED <<owner, watched, actors, cleanup, producer, created, started, value, history>>

FinishTeardown(c) ==
    /\ At(c, "GetData", "replied")
    /\ Deregister(calls[c].reply.ids, calls[c].reply.items)
    /\ actors' = Posted(actors, calls[c].actor, [op |-> "Stop", by |-> "cache"])
    /\ EndCall(c)
    /\ UNCHANGED <<entry, cleanup, producer, created, started, value, history>>

\* transfer of one subscription to session s.
BeginTransfer(c, s, id) ==
    /\ id <= created
    /\ EnsureEntry(s)
    /\ c \notin DOMAIN calls /\ "Transfer" \in CallKinds /\ started < MaxCalls
    /\ started' = started + 1
    /\ calls' = Put(calls, c, [kind |-> "Transfer", session |-> s, sub |-> id, op |-> "Clone",
                               pc |-> "lookup", actor |-> 0, source |-> 0, dest |-> entry'[s],
                               ids |-> {}, reply |-> Failed])
    /\ UNCHANGED <<owner, watched, cleanup, producer, created, value, history>>

\* The source is the actor of the session that owns the subscription now; if that is
\* the session itself the answer is Good and nothing changes.
LookupSource(c) ==
    LET call == calls[c]
        found == /\ call.sub \in DOMAIN owner
                 /\ owner[call.sub] \in DOMAIN entry
                 /\ owner[call.sub] # call.session
    IN  /\ At(c, "Clone", "lookup")
        /\ IF found
             THEN LET a == entry[owner[call.sub]]
                  IN  calls' = [calls EXCEPT ![c].actor = a, ![c].source = a, ![c].pc = "send"]
             ELSE EndCall(c)
        /\ UNCHANGED <<cache, actors, cleanup, producer, created, started, value, history>>

\* The next command of a transfer, or its end if the last one failed.
Proceed(c, op, a) ==
    /\ IF calls[c].reply.ok THEN SendCommand(c, [calls[c] EXCEPT !.op = op, !.actor = a])
       ELSE EndCall(c) /\ UNCHANGED actors
    /\ UNCHANGED <<entry, watched, cleanup, producer, created, started, value, history>>

TransferCloned(c) ==
    /\ At(c, "Clone", "replied")
    /\ Proceed(c, "Insert", calls[c].dest)
    /\ UNCHANGED owner

TransferInserted(c) ==
    /\ At(c, "Insert", "replied")
    /\ Proceed(c, "Mark", calls[c].source)
    /\ UNCHANGED owner

\* Mutant: the source is not told to let go.
TransferMarkedKeepsSource(c) ==
    /\ At(c, "Mark", "replied")
    /\ owner' = IF calls[c].reply.ok THEN Put(owner, calls[c].sub, calls[c].session) ELSE owner
    /\ EndCall(c)
    /\ UNCHANGED <<entry, watched, actors, cleanup, producer, created, started, value, history>>

\* The index is flipped and the source told to let go.
TransferMarked(c) ==
    /\ At(c, "Mark", "replied")
    /\ owner' = IF calls[c].reply.ok THEN Put(owner, calls[c].sub, calls[c].session) ELSE owner
    /\ Proceed(c, "Complete", calls[c].source)

TransferCompleted(c) ==
    /\ At(c, "Complete", "replied")
    /\ EndCall(c)
    /\ UNCHANGED <<cache, actors, cleanup, producer, created, started, value, history>>

-----------------------------------------------------------------------------
(***************************************************************************)
(* The cleanup task and the producers.                                     *)
(***************************************************************************)
\* Mutant: the actor is stopped but its entry stays.
RunCleanupKeepsEntry ==
    /\ cleanup # <<>>
    /\ cleanup' = Tail(cleanup)
    /\ LET msg == Head(cleanup)
           retired == msg.ready /\ msg.session \in DOMAIN entry
       IN  /\ Deregister(msg.ids, msg.items)
           /\ actors' = IF retired THEN Posted(actors, entry[msg.session], [op |-> "Stop", by |-> "cache"])
                        ELSE actors
    /\ UNCHANGED <<entry, calls, producer, created, started, value, history>>

\* run_cleanup: the entry that is removed is whatever the session has now.
RunCleanup ==
    /\ cleanup # <<>>
    /\ cleanup' = Tail(cleanup)
    /\ LET msg == Head(cleanup)
           retired == msg.ready /\ msg.session \in DOMAIN entry
       IN  /\ Deregister(msg.ids, msg.items)
           /\ entry' = IF retired THEN Drop(entry, {msg.session}) ELSE entry
           /\ actors' = IF retired THEN Posted(actors, entry[msg.session], [op |-> "Stop", by |-> "cache"])
                        ELSE actors
    /\ UNCHANGED <<calls, producer, created, started, value, history>>

\* NotificationRouteSnapshot::for_data
Routes ==
    {<<entry[owner[id]], id>> : id \in {i \in watched \cap DOMAIN owner : owner[i] \in DOMAIN entry}}

\* notify_for takes the routes under the read lock ...
Snapshot ==
    /\ producer = {}
    /\ value < MaxValues
    /\ Routes # {}
    /\ producer' = Routes
    /\ value' = value + 1
    /\ UNCHANGED <<cache, actors, cleanup, calls, created, started, history>>

\* ... and push_notification follows when the notifier is dropped: a full ring
\* drops the value.
Push ==
    /\ producer # {}
    /\ \E route \in producer :
         LET a == route[1]
             id == route[2]
             full == Len(actors[a].ring) >= RingCapacity
         IN  /\ producer' = producer \ {route}
             /\ actors' = IF full THEN actors
                          ELSE [actors EXCEPT ![a].ring = Append(@, <<id, value>>)]
             /\ routed' = [routed EXCEPT ![id] = @ \cup {value}]
             /\ dropped' = IF full THEN [dropped EXCEPT ![id] = @ \cup {value}] ELSE dropped
    /\ UNCHANGED <<cache, cleanup, calls, created, started, value>>

-----------------------------------------------------------------------------
BeginCall ==
    \E c \in Callers, s \in Sessions :
        \/ BeginCreate(c, s)
        \/ BeginClose(c, s)
        \/ \E id \in SubIds :
             BeginCreateItem(c, s, id) \/ BeginDelete(c, s, id) \/ BeginTransfer(c, s, id)

\* The next step of the call of c.
Step(c) ==
    \/ Send(c)
    \/ LookupCreate(c) \/ FinishCreate(c)
    \/ LookupCreateItem(c) \/ FinishCreateItem(c)
    \/ LookupIds(c) \/ FinishIds(c)
    \/ LookupDelete(c) \/ FinishDelete(c)
    \/ LookupTeardown(c) \/ FinishTeardown(c)
    \/ LookupSource(c) \/ TransferCloned(c) \/ TransferInserted(c)
    \/ TransferMarked(c) \/ TransferCompleted(c)

Serve(a) == HandleCommand(a) \/ HandleStop(a) \/ Wake(a)

Next ==
    \/ BeginCall
    \/ \E c \in DOMAIN calls : Step(c)
    \/ \E a \in ActorIds : Serve(a) \/ TimerExpires(a) \/ TimerRetires(a) \/ RemoveReady(a)
    \/ RunCleanup
    \/ Snapshot
    \/ Push

Spec == Init /\ [][Next]_vars

\* Tasks that can run are scheduled: calls, the command loops of the actors, the
\* cleanup task and the producers.  Clients and timers need not do anything.
FairSpec ==
    /\ Spec
    /\ \A c \in Callers : WF_vars(c \in DOMAIN calls /\ Step(c))
    /\ \A a \in 1..MaxActors : WF_vars(a \in ActorIds /\ Serve(a))

-----------------------------------------------------------------------------
(***************************************************************************)
(* Safety.                                                                 *)
(***************************************************************************)
Stopping(a) == \E i \in DOMAIN actors[a].mail : actors[a].mail[i].op = "Stop"

\* The cache never hands out an actor that has been told to stop.
EntriesAlive == \A s \in DOMAIN entry : actors[entry[s]].alive /\ ~Stopping(entry[s])

\* No actor is left behind: one that is not in the cache has been told to stop or
\* is about to be by the call that took it out.
NoOrphanActor ==
    \A a \in ActorIds :
        actors[a].alive =>
            \/ \E s \in DOMAIN entry : entry[s] = a
            \/ Stopping(a)
            \/ \E c \in DOMAIN calls : calls[c].op = "GetData" /\ calls[c].actor = a

\* The registry names exactly the actors that run, at every moment of a close, a
\* teardown and a cleanup (ensure_session_entry, teardown_session, run_cleanup).
RegistryExact == EntriesAlive /\ NoOrphanActor

\* Nothing is under way.
Quiet ==
    /\ DOMAIN calls = {} /\ cleanup = <<>> /\ producer = {}
    /\ \A a \in ActorIds : actors[a].mail = <<>> /\ (actors[a].alive => actors[a].ring = <<>>)

\* The subscriptions of the session's actor that have not expired.
LiveSubs(s) == {id \in DOMAIN actors[entry[s]].subs : ~actors[entry[s]].subs[id].closed}

\* Every live subscription is routed to the session that holds it.
LiveSubsRouted ==
    Quiet => \A s \in DOMAIN entry : \A id \in LiveSubs(s) : id \in DOMAIN owner /\ owner[id] = s

\* Not only then: whatever calls, timers and cleanup messages overtake each other, the
\* session has the route of a live subscription from the moment its creation is recorded,
\* and none of their late updates of the index takes it away again.  A transfer is
\* excepted: its source is live until it has been told to let go.
RoutedOnceRecorded ==
    \A s \in DOMAIN entry : \A id \in LiveSubs(s) :
        \/ id \in DOMAIN owner /\ owner[id] = s
        \/ \E c \in DOMAIN calls :
             At(c, "Create", "replied") /\ calls[c].reply.ok /\ calls[c].sub = id

\* Every route leads to a live subscription.
RoutesLead ==
    Quiet => \A id \in DOMAIN owner : owner[id] \in DOMAIN entry /\ id \in LiveSubs(owner[id])

\* The reverse index names exactly the subscriptions that have an item.
WatchedAccurate ==
    Quiet => watched = UNION {{id \in LiveSubs(s) : actors[entry[s]].subs[id].item} : s \in DOMAIN entry}

\* When nothing is under way, the three indexes of the registry say what the actors
\* hold: updated after each awaited reply, they neither miss nor invent one.
IndexesAgree == LiveSubsRouted /\ RoutesLead /\ WatchedAccurate

\* Values pushed for a subscription reach its item, or are counted as dropped.
ValuesDelivered ==
    Quiet => \A s \in DOMAIN entry : \A id \in LiveSubs(s) :
               actors[entry[s]].subs[id].item =>
                   routed[id] \ dropped[id] \subseteq actors[entry[s]].subs[id].received

\* Two sessions advance the same subscription only while it is being transferred.
AdvancedOnce ==
    \A s, t \in DOMAIN entry : \A id \in SubIds :
        s # t /\ id \in DOMAIN actors[entry[s]].subs /\ id \in DOMAIN actors[entry[t]].subs =>
            \E c \in DOMAIN calls : calls[c].kind = "Transfer" /\ calls[c].sub = id

-----------------------------------------------------------------------------
(***************************************************************************)
(* Liveness, under FairSpec.                                               *)
(***************************************************************************)
\* Every call comes to its end, even if its actor is stopped before it answers.
CallsEnd == \A c \in Callers : c \in DOMAIN calls ~> c \notin DOMAIN calls
=============================================================================
