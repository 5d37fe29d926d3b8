---------------------------- MODULE SessionActor ----------------------------
(***************************************************************************)
(* The actor of one session (actor.rs): it takes commands, notification    *)
(* wakes and timer expirations one at a time and runs each to its end.     *)
(***************************************************************************)
EXTENDS SessionSubscriptions

CONSTANTS
    RequestedSettings,  \* parameters a client may ask for in create and modify
    MaxOperations,      \* bound on management calls and data changes
    MaxTransfers,       \* bound on transfers out of the session, instead of those
    Cancels             \* whether the client cancels publish requests

ASSUME SessionActorAssumption ==
    /\ MaxOperations \in Nat
    /\ MaxTransfers \in Nat
    /\ Cancels \in BOOLEAN

VARIABLES
    ses,        \* the SessionSubscriptions
    looping,    \* the actor is in the loop of its EnqueuePublish arm
    served,     \* history: subscriptions that the last handler sent messages of
    created,    \* subscriptions created so far: ids are 1..created
    operations, \* management calls and data changes so far
    transfers   \* transfers started so far

vars == <<ses, looping, served, created, operations, transfers>>

Ids == 1..MaxSubscriptions

TypeOK ==
    /\ SessionIds(ses) \subseteq Ids
    /\ \A id \in SessionIds(ses) : ses.subs[id] \in SubscriptionRecord
    /\ ses.requests \in 0..MaxPending
    /\ ToSet(ses.unacked) \subseteq Ids \X SeqNumber
    /\ ToSet(ses.status) \subseteq Ids
    /\ ses.transferring \subseteq Ids
    /\ ToSet(ses.order) \subseteq Ids
    /\ ses.dirty \in BOOLEAN /\ ses.crashed \in BOOLEAN
    /\ looping \in BOOLEAN /\ served \subseteq Ids
    /\ created \in 0..MaxSubscriptions
    /\ operations \in 0..MaxOperations
    /\ transfers \in 0..MaxTransfers

Init ==
    /\ ses = NewSession
    /\ looping = FALSE
    /\ served = {}
    /\ created = 0
    /\ operations = 0
    /\ transfers = 0

-----------------------------------------------------------------------------
Ready == ~looping /\ ~ses.crashed

Ran(step) == ses' = step.ses /\ served' = {m[1] : m \in ToSet(step.sent)}

Managed(newSes) ==
    /\ Ready
    /\ operations < MaxOperations /\ transfers = 0
    /\ ses' = newSes
    /\ served' = {}
    /\ operations' = operations + 1
    /\ UNCHANGED <<looping, created, transfers>>

CreateSubscription ==
    /\ Ready
    /\ Cardinality(SessionIds(ses)) < MaxSubscriptions
    /\ created < MaxSubscriptions
    /\ \E r \in RequestedSettings :
         ses' = InsertSubscription(ses, created + 1, NewSubscription(ReviseSettings(r), TRUE), <<>>)
    /\ created' = created + 1
    /\ served' = {}
    /\ UNCHANGED <<looping, operations, transfers>>

\* CreateMonitoredItems, for an item that has a value.  MaxItems bounds it.
CreateItem ==
    /\ Ready
    /\ \E id \in SessionIds(ses) :
         /\ ses.subs[id].values < MaxItems
         /\ ses' = UpdateSubscription(ses, id, InsertItem(ses.subs[id], TRUE))
    /\ served' = {}
    /\ UNCHANGED <<looping, created, operations, transfers>>

Modify ==
    \E id \in SessionIds(ses), r \in RequestedSettings : Managed(ModifyOne(ses, id, ReviseSettings(r)))

ChangePublishingMode ==
    \E id \in SessionIds(ses), enabled \in BOOLEAN :
        Managed(UpdateSubscription(ses, id, SetPublishingMode(ses.subs[id], enabled)))

Delete == \E id \in SessionIds(ses) : Managed(DeleteOne(ses, id))

Cancel == Cancels /\ \E n \in 1..ses.requests : Managed(CancelRequests(ses, n))

\* drain_ring delivers a value to an item with an empty queue.
DataChange ==
    \E id \in SessionIds(ses) :
        /\ ses.subs[id].values > ses.subs[id].pending
        /\ Managed(UpdateSubscription(ses, id, NotifyDataValue(ses.subs[id], TRUE)))

\* EnqueuePublish; the request acknowledges nothing or all that is outstanding.
\* The handler continues in PublishLoop.
Publish ==
    /\ Ready
    /\ \E acks \in {{}, ToSet(ses.unacked)}, late \in {0, ses.requests} :
         \E room \in {MakeRoom(ses, late)} :
           Ran(EnqueuePublish(room, acks, IF QueueFull(ses) THEN 0 ELSE late))
    /\ looping' = ~ses'.crashed
    /\ UNCHANGED <<created, operations, transfers>>

\* The loop of the EnqueuePublish arm: it has no await, so the actor does nothing
\* else until it ends.
PublishLoop ==
    /\ looping
    /\ IF MoreToSend(ses)
         THEN Ran(TickSession(ses, "ReceivePublishRequest", {}, 0)) /\ looping' = ~ses'.crashed
         ELSE looping' = FALSE /\ served' = {} /\ UNCHANGED ses
    /\ UNCHANGED <<created, operations, transfers>>

NotificationWake ==
    /\ Ready
    /\ Ran(WakeSession(ses))
    /\ UNCHANGED <<looping, created, operations, transfers>>

\* The timer arm: any set of publishing intervals has elapsed and any number of
\* requests has timed out.
TimerFires ==
    /\ Ready
    /\ SessionIds(ses) # {}
    /\ \E elapsed \in SUBSET SessionIds(ses), late \in 0..ses.requests :
         Ran(TickSession(ses, "TickTimerFired", elapsed, late))
    /\ UNCHANGED <<looping, created, operations, transfers>>

\* Another session takes a subscription over: MarkTransferring, and later
\* CompleteTransfer.
StartTransfer ==
    /\ Ready
    /\ transfers < MaxTransfers /\ operations = 0
    /\ \E id \in SessionIds(ses) \ ses.transferring : ses' = MarkTransferring(ses, id)
    /\ transfers' = transfers + 1
    /\ served' = {}
    /\ UNCHANGED <<looping, created, operations>>

FinishTransfer ==
    /\ Ready
    /\ \E id \in ses.transferring : ses' = CompleteTransfer(ses, id)
    /\ served' = {}
    /\ UNCHANGED <<looping, created, operations, transfers>>

Next ==
    \/ CreateSubscription
    \/ CreateItem
    \/ Modify
    \/ ChangePublishingMode
    \/ Delete
    \/ Cancel
    \/ DataChange
    \/ Publish
    \/ PublishLoop
    \/ NotificationWake
    \/ TimerFires
    \/ StartTransfer
    \/ FinishTransfer

Spec == Init /\ [][Next]_vars

\* The task of the actor is scheduled, so a handler that has begun goes on.
FairSpec == Spec /\ WF_vars(PublishLoop)

-----------------------------------------------------------------------------
(***************************************************************************)
(* Safety.                                                                 *)
(***************************************************************************)
Live == SessionIds(ses) \ ses.transferring

\* The cached order never starves a subscription: while it counts as clean every
\* subscription is in it, higher priorities first.
OrderCoversSubscriptions ==
    ~ses.dirty /\ ~ses.crashed =>
        /\ SessionIds(ses) \subseteq ToSet(ses.order)
        /\ \A i, j \in 1..Len(ses.order) :
             i < j /\ {ses.order[i], ses.order[j]} \subseteq SessionIds(ses) =>
                 ses.subs[ses.order[i]].settings.priority >= ses.subs[ses.order[j]].settings.priority

\* When a handler has run, no subscription of the session holds a message while a
\* publish request waits.
NoMessageWaitsForRequest ==
    Ready /\ ses.requests > 0 =>
        \A id \in Live : ses.subs[id].queue = <<>>

\* A subscription is not answered before one of higher priority that still has
\* messages waiting.
PriorityRespected ==
    \A low \in served \cap SessionIds(ses), id \in Live :
        ses.subs[id].settings.priority > ses.subs[low].settings.priority =>
            ses.subs[id].queue = <<>> \/ ses.crashed

-----------------------------------------------------------------------------
(***************************************************************************)
(* Liveness, under FairSpec.                                               *)
(***************************************************************************)
\* The EnqueuePublish arm ends: the actor gets back to its other commands.
ActorResponsive == looping ~> ~looping

-----------------------------------------------------------------------------
(***************************************************************************)
(* What a design document says, which the code does not do.                *)
(***************************************************************************)
\* "When priority_cache_dirty == false, cached_priority_order accurately reflects
\* the current subscription set".
CacheAccurate ==
    ~ses.dirty /\ ~ses.crashed => ToSet(ses.order) = SessionIds(ses)
=============================================================================
