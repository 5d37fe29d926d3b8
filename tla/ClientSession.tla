--------------------------- MODULE ClientSession ---------------------------
(***************************************************************************)
(* The session of async-opcua-client: its event loop                       *)
(* (session/event_loop.rs) connects, polls the transport, sends keep-alive *)
(* reads and runs the publish loop (services/subscriptions/                *)
(* event_loop_state.rs); SessionConnector (session/connect.rs) activates   *)
(* or replaces the session and moves its subscriptions over; user tasks    *)
(* call the session meanwhile and share its SubscriptionState, a mutex.    *)
(*                                                                         *)
(* The server is external, seen through its answers: it keeps the session  *)
(* or forgets it, keeps subscriptions for a later transfer or not, holds   *)
(* publish requests in order and answers them.                             *)
(*                                                                         *)
(* All in one event-loop task, without an await in between: a publish      *)
(* response is taken, the subscription's callback runs outside the mutex   *)
(* with a placeholder left behind (`delivering`), the subscription is put  *)
(* back and the next request is sent.  User tasks run in parallel.         *)
(***************************************************************************)
EXTENDS Naturals, Sequences, SequencesExt, FiniteSets

CONSTANTS
    MaxSubs,          \* bound on subscriptions created; ids are 1..MaxSubs
    MaxNotes,         \* bound on notifications with data
    MaxCalls,         \* bound on calls of user tasks
    MaxLosses,        \* bound on connections that break
    MaxForgets,       \* bound on sessions the server forgets
    MaxTries,         \* retry limit of SessionRetryPolicy
    MaxFailed,        \* max_failed_keep_alive_count
    PerSubscription,  \* REQUESTS_PER_SUBSCRIPTION
    ServerHolds,      \* publish requests a server queues for a session
    Ops               \* calls that user tasks make

ASSUME ClientConstants ==
    /\ {MaxSubs, MaxNotes, MaxCalls, MaxLosses, MaxForgets, MaxTries} \subseteq Nat
    /\ {MaxFailed, PerSubscription, ServerHolds} \subseteq Nat \ {0}
    /\ Ops \subseteq {"create", "delete", "mode", "disconnect", "drop"}

VARIABLES
    loop,        \* SessionEventLoopState; "activating" while try_connect runs
    step,        \* where ensure_and_activate_session is
    todo,        \* subscription_ids_to_recreate
    moving,      \* the subscription taken out of the state to be recreated
    tries,       \* what the backoff has given out
    failed,      \* current_failed_keep_alive_count
    closing,     \* currently_closing: disconnect_fut is running
    hangup,      \* a CloseSecureChannel is on its way: the transport will close
    reconnects,  \* should_reconnect
    dropped,     \* close_rx: the SessionDropGuard was dropped
    waiting,     \* waiting_for_response
    idle,        \* no_active_subscription
    triggered,   \* trigger_publish is later than last_external_trigger
    inflight,    \* futures
    delivering,  \* the publish response being processed
    subs, acks,  \* SubscriptionState
    call,        \* the user task's call
    calls, created, losses, forgets,
    session,     \* server: it knows the client's session
    served,      \* server: subscriptions of that session
    orphans,     \* server: subscriptions of earlier sessions
    produced, sent,   \* server: notifications with data, by subscription
    acked,       \* server: notifications acknowledged on this connection
    received,    \* history: notifications taken on this connection
    wanted,      \* history: subscriptions users created and have not deleted
    lost,        \* history: subscriptions a recreation gave up
    revived,     \* history: subscriptions recreated although deleted meanwhile
    missed,      \* history: subscriptions whose mode was set while they were recreated
    mode         \* history: the publishing mode users last set

connecting == <<step, todo, moving, tries>>
ending == <<failed, closing, hangup, reconnects, dropped>>
publishing == <<waiting, idle, triggered, inflight, delivering>>
state == <<subs, acks>>
counts == <<calls, created, losses, forgets>>
server == <<session, served, orphans, produced, sent, acked>>
history == <<received, wanted, lost, revived, missed, mode>>
vars == <<loop, connecting, ending, publishing, state, call, counts, server, history>>

SubIds == 1..MaxSubs
\* heir is history: the id that the call's subscription has by now.
NoCall == [op |-> "none", sub |-> 0, heir |-> 0, on |-> FALSE, at |-> "none"]
NoDelivery == [at |-> 0, sub |-> 0]
NoMove == [id |-> 0, on |-> FALSE]

Put(f, x, y) == [z \in DOMAIN f \cup {x} |-> IF z = x THEN y ELSE f[z]]
Drop(f, x) == [z \in DOMAIN f \ {x} |-> f[z]]

\* A Subscription, as far as the loop sees it; a placeholder has no callback.
NewSub(on) == [on |-> on, placeholder |-> FALSE]

Init ==
    /\ loop = "disconnected"
    /\ step = "none" /\ todo = {} /\ moving = NoMove /\ tries = 0
    /\ failed = 0 /\ closing = FALSE /\ hangup = FALSE /\ reconnects = TRUE /\ dropped = FALSE
    /\ waiting = FALSE /\ idle = TRUE /\ triggered = FALSE
    /\ inflight = <<>> /\ delivering = NoDelivery
    /\ subs = <<>> /\ acks = {}
    /\ call = NoCall
    /\ calls = 0 /\ created = 0 /\ losses = 0 /\ forgets = 0
    /\ session = FALSE /\ served = {} /\ orphans = {}
    /\ produced = [i \in SubIds |-> 0] /\ sent = [i \in SubIds |-> 0]
    /\ acked = {}
    /\ received = {} /\ wanted = {} /\ lost = {} /\ revived = {} /\ missed = {}
    /\ mode = [i \in SubIds |-> TRUE]

-----------------------------------------------------------------------------
(* The publish loop: SubscriptionEventLoopState::tick.                     *)

Running == loop = "connected" /\ delivering = NoDelivery

\* PublishLimits, with a round trip shorter than the publishing interval.
PublishLimit == PerSubscription * Cardinality(DOMAIN subs)

\* A future of Session::publish; it takes the acknowledgements when first polled.
Request == [at |-> "new", acks |-> {}, result |-> "none", sub |-> 0, seq |-> 0, more |-> FALSE]

\* An external trigger always publishes, unless the server has asked to back off.
TriggerArm ==
    /\ Running /\ triggered /\ ~waiting
    /\ inflight' = Append(inflight, Request)
    /\ triggered' = FALSE
    /\ idle' = FALSE
    /\ UNCHANGED <<loop, connecting, ending, waiting, delivering, state, call, counts, server, history>>

\* Backing off: the trigger stays, and is seen again at once.
TriggerSkipped ==
    /\ Running /\ triggered /\ waiting
    /\ idle' = FALSE
    /\ UNCHANGED <<loop, connecting, ending, waiting, triggered, inflight, delivering, state, call,
                   counts, server, history>>

\* The publishing interval is over; wait_for_next_tick is pending without subscriptions.
TickArm ==
    /\ Running /\ DOMAIN subs # {}
    /\ ~waiting /\ ~idle
    /\ Len(inflight) < PublishLimit
    /\ inflight' = Append(inflight, Request)
    /\ UNCHANGED <<loop, connecting, ending, waiting, idle, triggered, delivering, state, call,
                   counts, server, history>>

\* The first poll of publish(): take_acknowledgements, and the request is sent.
SendPublish ==
    /\ Running
    /\ \E i \in DOMAIN inflight :
         /\ inflight[i].at = "new"
         /\ \A j \in 1..i - 1 : inflight[j].at # "new"
         /\ inflight' = [inflight EXCEPT ![i].at = "sent", ![i].acks = acks]
    /\ acks' = {}
    /\ UNCHANGED <<loop, connecting, ending, waiting, idle, triggered, delivering, subs, call,
                   counts, server, history>>

\* publish() has its response: collect_client_delivery_packet queues the
\* acknowledgement, known subscription or not, and stage takes the callback out.
TakeResponse ==
    /\ Running
    /\ \E i \in DOMAIN inflight :
         LET r == inflight[i]
             data == IF r.seq = 0 THEN {} ELSE {<<r.sub, r.seq>>}
             known == r.sub \in DOMAIN subs
         IN  /\ r.at = "done" /\ r.result = "ok"
             /\ acks' = acks \cup data
             /\ received' = received \cup data
             /\ delivering' = [at |-> i, sub |-> IF known THEN r.sub ELSE 0]
             /\ subs' = IF known THEN [subs EXCEPT ![r.sub].placeholder = TRUE] ELSE subs
    /\ UNCHANGED <<loop, connecting, ending, waiting, idle, triggered, inflight, call,
                   counts, server, wanted, lost, revived, missed, mode>>

\* Mutant: the subscription comes back as it was taken out.
RestoredAsTaken ==
    IF delivering.sub \in DOMAIN subs THEN Put(subs, delivering.sub, NewSub(TRUE)) ELSE subs

\* PendingClientDelivery::restore: the callback returns to what is there by now.
Restored ==
    IF delivering.sub \in DOMAIN subs
    THEN [subs EXCEPT ![delivering.sub].placeholder = FALSE] ELSE subs

\* The callback has run; the Ok branch of tick.
FinishDelivery ==
    /\ loop = "connected" /\ delivering # NoDelivery
    /\ subs' = Restored
    /\ LET rest == RemoveAt(inflight, delivering.at)
           next == inflight[delivering.at].more \/ Len(rest) < PublishLimit
       IN  inflight' = IF next /\ ~waiting THEN Append(rest, Request) ELSE rest
    /\ delivering' = NoDelivery
    /\ waiting' = FALSE /\ idle' = FALSE
    /\ UNCHANGED <<loop, connecting, ending, triggered, acks, call, counts, server, history>>

\* Mutant: the latch stays until a response is good.
LatchStuck(rest) == waiting

\* The latch does not outlive the requests in flight.
Latch(rest) == waiting /\ rest # <<>>

\* Mutant: an error drops the acknowledgements.
RequeuedNone(r) == acks

\* re_queue_acknowledgements
Requeued(r) == acks \cup r.acks

\* publish() failed, the Err branch of tick.
TakeError ==
    /\ Running
    /\ \E i \in DOMAIN inflight :
         LET r == inflight[i]
             rest == RemoveAt(inflight, i)
         IN  /\ r.at = "done" /\ r.result # "ok"
             /\ acks' = Requeued(r)
             /\ inflight' = rest
             /\ IF r.result = "dead"
                THEN closing' = TRUE /\ UNCHANGED <<waiting, idle>>
                ELSE /\ waiting' = IF r.result = "tooMany" THEN rest # <<>> ELSE Latch(rest)
                     /\ idle' = (idle \/ r.result = "noSubscription")
                     /\ UNCHANGED closing
    /\ UNCHANGED <<loop, connecting, failed, hangup, reconnects, dropped, triggered, delivering,
                   subs, call, counts, server, history>>

-----------------------------------------------------------------------------
(* The server.                                                             *)

Unsent == {s \in served : sent[s] < produced[s]}
Held == {i \in DOMAIN inflight : inflight[i].at = "sent"}

Done(i, result, sub, seq, more) ==
    inflight' = [inflight EXCEPT ![i] = [at |-> "done",
                                         acks |-> IF result = "ok" THEN {} ELSE inflight[i].acks,
                                         result |-> result, sub |-> sub, seq |-> seq, more |-> more]]

\* Publish requests are answered in the order of their arrival.
Answer ==
    /\ loop = "connected"
    /\ \E i \in Held :
         /\ \A j \in Held : i <= j
         /\ \/ /\ ~session
               /\ Done(i, "dead", 0, 0, FALSE)
               /\ UNCHANGED <<sent, acked>>
            \/ /\ session /\ served = {}
               /\ Done(i, "noSubscription", 0, 0, FALSE)
               /\ acked' = acked \cup inflight[i].acks
               /\ UNCHANGED sent
            \/ /\ session /\ Cardinality(Held) > ServerHolds
               /\ Done(i, "tooMany", 0, 0, FALSE)
               /\ acked' = acked \cup inflight[i].acks
               /\ UNCHANGED sent
            \/ /\ session
               /\ \E s \in Unsent :
                    /\ sent' = [sent EXCEPT ![s] = @ + 1]
                    /\ Done(i, "ok", s, sent[s] + 1, Unsent # {s} \/ sent[s] + 1 < produced[s])
               /\ acked' = acked \cup inflight[i].acks
            \/ /\ session /\ Unsent = {}
               /\ \E s \in served : Done(i, "ok", s, 0, FALSE)
               /\ acked' = acked \cup inflight[i].acks
               /\ UNCHANGED sent
    /\ UNCHANGED <<loop, connecting, ending, waiting, idle, triggered, delivering, state, call,
                   counts, session, served, orphans, produced, history>>

\* The client gives up on a request; the server may have taken its acknowledgements.
TimeOut ==
    /\ loop = "connected" /\ losses < MaxLosses
    /\ \E i \in Held : Done(i, "failed", 0, 0, FALSE)
                      /\ \E a \in {{}, inflight[i].acks} : acked' = acked \cup a
    /\ losses' = losses + 1
    /\ UNCHANGED <<loop, connecting, ending, waiting, idle, triggered, delivering, state, call,
                   calls, created, forgets, session, served, orphans, produced, sent, history>>

Produce ==
    /\ loop = "connected"
    /\ FoldFunction(+, 0, produced) < MaxNotes
    /\ \E s \in served : produced' = [produced EXCEPT ![s] = @ + 1]
    /\ UNCHANGED <<loop, connecting, ending, publishing, state, call, counts,
                   session, served, orphans, sent, acked, history>>

\* A restart, or the session's timeout.
ServerForgets ==
    /\ loop # "ended"
    /\ session /\ forgets < MaxForgets
    /\ forgets' = forgets + 1
    /\ session' = FALSE /\ served' = {}
    /\ orphans' \in {{}, orphans \cup served}
    /\ UNCHANGED <<loop, connecting, ending, publishing, state, call, calls, created, losses,
                   produced, sent, acked, history>>

-----------------------------------------------------------------------------
(* Keep-alive reads and the end of a connection.                           *)

KeepAliveFailed ==
    /\ failed' = IF failed < MaxFailed THEN failed + 1 ELSE failed
    /\ closing' = (closing \/ failed + 1 >= MaxFailed)
    /\ UNCHANGED <<loop, connecting, hangup, reconnects, dropped, publishing, state, call, calls,
                   created, forgets, server, history>>

\* SessionActivityLoop: the read of the server's state, answered or refused.
KeepAlive ==
    /\ Running
    /\ \/ /\ session
          /\ failed' = 0
          /\ UNCHANGED <<loop, connecting, closing, hangup, reconnects, dropped, publishing, state,
                         call, counts, server, history>>
       \/ ~session /\ KeepAliveFailed /\ UNCHANGED losses

\* The read is lost.
KeepAliveLost ==
    /\ Running /\ losses < MaxLosses
    /\ losses' = losses + 1
    /\ KeepAliveFailed

\* Mutant: a CloseSession that fails ends disconnect_inner.
DisconnectingIfClosed ==
    /\ Running /\ closing /\ ~hangup /\ session
    /\ hangup' = TRUE
    /\ session' = FALSE /\ served' = {} /\ orphans' = orphans \cup served
    /\ UNCHANGED <<loop, connecting, failed, closing, reconnects, dropped, publishing, state, call,
                   counts, produced, sent, acked, history>>

\* disconnect_inner(false, false) in disconnect_fut: the channel is closed
\* whether or not the server has closed the session.
Disconnecting ==
    /\ Running /\ closing /\ ~hangup
    /\ hangup' = TRUE
    /\ \/ UNCHANGED <<session, served, orphans>>
       \/ /\ session
          /\ session' = FALSE /\ served' = {} /\ orphans' = orphans \cup served
    /\ UNCHANGED <<loop, connecting, failed, closing, reconnects, dropped, publishing, state, call,
                   counts, produced, sent, acked, history>>

\* The transport reports Closed; the futures of the publish loop go with it.
TransportClosed ==
    /\ Running
    /\ \/ hangup /\ UNCHANGED losses
       \/ ~hangup /\ losses < MaxLosses /\ losses' = losses + 1
    /\ loop' = IF reconnects THEN "disconnected" ELSE "ended"
    /\ failed' = 0 /\ closing' = FALSE /\ hangup' = FALSE
    /\ waiting' = FALSE /\ idle' = TRUE /\ triggered' = FALSE /\ inflight' = <<>>
    /\ received' = {} /\ acked' = {}
    /\ UNCHANGED <<connecting, reconnects, dropped, delivering, state, call, calls, created,
                   forgets, session, served, orphans, produced, sent, wanted, lost, revived, missed,
                   mode>>

\* close_rx is seen at the top of the loop.
LoopStops ==
    /\ dropped
    /\ loop \in {"connected", "disconnected", "connecting"} /\ delivering = NoDelivery
    /\ loop' = "ended"
    /\ waiting' = FALSE /\ idle' = TRUE /\ triggered' = FALSE /\ inflight' = <<>>
    /\ UNCHANGED <<connecting, ending, delivering, state, call, counts, server, history>>

-----------------------------------------------------------------------------
(* Connecting, and the subscriptions of the old session.                   *)

BeginConnect ==
    /\ loop = "disconnected"
    /\ loop' = "connecting" /\ tries' = 0
    /\ UNCHANGED <<step, todo, moving, ending, publishing, state, call, counts, server, history>>

\* connect_no_retry
Connect ==
    /\ loop = "connecting"
    /\ loop' = "activating" /\ step' = "activate"
    /\ UNCHANGED <<todo, moving, tries, ending, publishing, state, call, counts, server, history>>

\* try_connect returns an error: the next try of the backoff, or the end.
TryFailed ==
    /\ loop' = IF tries < MaxTries THEN "connecting" ELSE "ended"
    /\ tries' = IF tries < MaxTries THEN tries + 1 ELSE tries
    /\ step' = "none" /\ todo' = {}

ConnectFails ==
    /\ loop = "connecting" /\ losses < MaxLosses
    /\ losses' = losses + 1
    /\ TryFailed
    /\ UNCHANGED <<moving, ending, publishing, state, call, calls, created, forgets, server, history>>

\* ensure_and_activate_session: activate the known session, or create one.
Activate ==
    /\ loop = "activating" /\ step = "activate"
    /\ step' = "transfer"
    /\ session' = TRUE
    /\ UNCHANGED <<loop, todo, moving, tries, ending, publishing, state, call, counts,
                   served, orphans, produced, sent, acked, history>>

\* transfer_subscriptions_from_old_session, up to the answer of TransferSubscriptions.
Transfer ==
    /\ loop = "activating" /\ step = "transfer"
    /\ step' = "recreate"
    /\ acks' = {}
    /\ \/ \* nothing to move, or the session is gone again
          /\ DOMAIN subs = {} \/ ~session
          /\ todo' = DOMAIN subs
          /\ UNCHANGED <<triggered, losses, served, orphans>>
       \/ /\ DOMAIN subs # {} /\ session
          /\ \E moved \in SUBSET (DOMAIN subs \cap orphans) :
               /\ todo' = DOMAIN subs \ (moved \cup served)
               /\ served' = served \cup moved
               /\ orphans' = orphans \ moved
          /\ triggered' = TRUE
          /\ UNCHANGED losses
       \/ \* a fault or a timeout, whatever the server has moved by then
          /\ DOMAIN subs # {} /\ session /\ losses < MaxLosses
          /\ losses' = losses + 1
          /\ todo' = DOMAIN subs
          /\ \E moved \in SUBSET (DOMAIN subs \cap orphans) :
               served' = served \cup moved /\ orphans' = orphans \ moved
          /\ UNCHANGED triggered
    /\ UNCHANGED <<loop, moving, tries, ending, waiting, idle, inflight, delivering, subs, call,
                   calls, created, forgets, session, produced, sent, acked, history>>

\* The subscription leaves the state, unless a user has deleted it meanwhile.
RecreateBegin ==
    /\ loop = "activating" /\ step = "recreate" /\ moving = NoMove
    /\ \E s \in todo :
         /\ todo' = todo \ {s}
         /\ IF s \in DOMAIN subs
            THEN moving' = [id |-> s, on |-> subs[s].on] /\ subs' = Drop(subs, s)
            ELSE UNCHANGED <<moving, subs>>
    /\ UNCHANGED <<loop, step, tries, ending, publishing, acks, call, counts, server, history>>

\* create_subscription_inner under a new id.
RecreateOk ==
    /\ loop = "activating" /\ moving # NoMove
    /\ session /\ created < MaxSubs
    /\ created' = created + 1
    /\ LET id == created + 1 IN
         /\ served' = served \cup {id}
         /\ subs' = Put(subs, id, NewSub(moving.on))
         /\ IF moving.id \in wanted
            THEN wanted' = (wanted \ {moving.id}) \cup {id} /\ UNCHANGED revived
            ELSE revived' = revived \cup {id} /\ UNCHANGED wanted
         /\ mode' = [mode EXCEPT ![id] = mode[moving.id]]
         /\ missed' = IF moving.id \in missed THEN missed \cup {id} ELSE missed
         /\ call' = IF call.heir = moving.id THEN [call EXCEPT !.heir = id] ELSE call
    /\ moving' = NoMove
    /\ triggered' = TRUE
    /\ UNCHANGED <<loop, step, todo, tries, ending, waiting, idle, inflight, delivering, acks,
                   calls, losses, forgets, session, orphans, produced, sent, acked, received, lost>>

\* The server refuses; the loop goes on with the next subscription.
RecreateFails ==
    /\ loop = "activating" /\ moving # NoMove
    /\ \/ (~session \/ created = MaxSubs) /\ UNCHANGED losses
       \/ losses < MaxLosses /\ losses' = losses + 1
    /\ lost' = lost \cup {moving.id}
    /\ moving' = NoMove
    /\ UNCHANGED <<loop, step, todo, tries, ending, publishing, state, call, calls, created, forgets,
                   server, received, wanted, revived, missed, mode>>

\* The transport closes while the session is activated: the future is dropped.
ActivationCut ==
    /\ loop = "activating"
    /\ \/ hangup /\ UNCHANGED losses
       \/ ~hangup /\ losses < MaxLosses /\ losses' = losses + 1
    /\ TryFailed
    /\ hangup' = FALSE
    /\ moving' = NoMove
    /\ lost' = IF moving = NoMove THEN lost ELSE lost \cup {moving.id}
    /\ UNCHANGED <<failed, closing, reconnects, dropped, publishing, state, call, calls, created,
                   forgets, server, received, wanted, revived, missed, mode>>

\* A new SubscriptionEventLoopState starts from the trigger that is there.
Connected ==
    /\ loop = "activating" /\ step = "recreate" /\ todo = {} /\ moving = NoMove
    /\ loop' = "connected" /\ step' = "none" /\ tries' = 0
    /\ waiting' = FALSE /\ idle' = TRUE /\ triggered' = FALSE
    /\ UNCHANGED <<todo, moving, ending, inflight, delivering, state, call, counts, server, history>>

-----------------------------------------------------------------------------
(* Calls of user tasks, in parallel with the loop.                         *)

Online == loop \in {"connected", "activating"}

CallBegin ==
    /\ call = NoCall /\ calls < MaxCalls /\ Online
    /\ calls' = calls + 1
    /\ \E op \in Ops \cap {"create", "delete", "mode", "disconnect"} :
         \E s \in (IF op \in {"delete", "mode"} THEN wanted ELSE {0}) :
           \E on \in (IF op = "mode" THEN BOOLEAN ELSE {TRUE}) :
             /\ call' = [op |-> op, sub |-> s, heir |-> s, on |-> on, at |-> "sent"]
             /\ reconnects' = (reconnects /\ op # "disconnect")
    /\ UNCHANGED <<loop, connecting, failed, closing, hangup, dropped, publishing, state, created,
                   losses, forgets, server, history>>

\* The server's part.
CallServed ==
    /\ call.at = "sent" /\ Online /\ session
    /\ CASE call.op = "create" ->
              /\ created < MaxSubs
              /\ created' = created + 1
              /\ served' = served \cup {created + 1}
              /\ call' = [call EXCEPT !.at = "good", !.sub = created + 1, !.heir = created + 1]
              /\ UNCHANGED <<session>>
         [] call.op = "delete" ->
              /\ served' = served \ {call.sub}
              /\ call' = [call EXCEPT !.at = IF call.sub \in served THEN "good" ELSE "bad"]
              /\ UNCHANGED <<session, created>>
         [] call.op = "mode" ->
              /\ call' = [call EXCEPT !.at = IF call.sub \in served THEN "good" ELSE "bad"]
              /\ UNCHANGED <<session, served, created>>
         [] call.op = "disconnect" ->
              /\ session' = FALSE /\ served' = {}
              /\ call' = [call EXCEPT !.at = "good"]
              /\ UNCHANGED created
    /\ UNCHANGED <<loop, connecting, ending, publishing, state, calls, losses, forgets,
                   orphans, produced, sent, acked, history>>

\* A ServiceFault, a timeout or the end of the connection.
CallFails ==
    /\ call.at = "sent"
    /\ \/ /\ ~Online \/ ~session \/ (call.op = "create" /\ created = MaxSubs)
          /\ UNCHANGED losses
       \/ Online /\ losses < MaxLosses /\ losses' = losses + 1
    /\ call' = NoCall
    /\ hangup' = (hangup \/ (call.op = "disconnect" /\ Online))
    /\ UNCHANGED <<loop, connecting, failed, closing, reconnects, dropped, publishing, state,
                   calls, created, forgets, server, history>>

\* create_subscription_inner after its response.
FinishCreate ==
    /\ call.op = "create" /\ call.at = "good"
    /\ subs' = Put(subs, call.sub, NewSub(TRUE))
    /\ wanted' = wanted \cup {call.sub}
    /\ triggered' = (loop = "connected")
    /\ call' = NoCall
    /\ UNCHANGED <<loop, connecting, ending, waiting, idle, inflight, delivering, acks, counts,
                   server, received, lost, revived, missed, mode>>

\* delete_subscriptions does not look at the results.
FinishDelete ==
    /\ call.op = "delete" /\ call.at \in {"good", "bad"}
    /\ subs' = Drop(subs, call.sub)
    /\ wanted' = wanted \ {call.heir}
    /\ revived' = revived \cup ({call.heir} \cap DOMAIN subs')
    /\ call' = NoCall
    /\ UNCHANGED <<loop, connecting, ending, publishing, acks, counts, server,
                   received, lost, missed, mode>>

\* set_publishing_mode after its response; a subscription that is being recreated,
\* or has a new id by now, is not found.
FinishMode ==
    /\ call.op = "mode" /\ call.at \in {"good", "bad"}
    /\ subs' = IF call.at = "good" /\ call.sub \in DOMAIN subs
               THEN [subs EXCEPT ![call.sub].on = call.on] ELSE subs
    /\ mode' = IF call.at = "good" THEN [mode EXCEPT ![call.heir] = call.on] ELSE mode
    /\ missed' = CASE call.at = "bad" -> missed
                   [] call.at = "good" /\ call.sub \in DOMAIN subs -> missed \ {call.sub}
                   [] OTHER -> missed \cup {call.heir}
    /\ triggered' = (loop = "connected" /\ (triggered \/ call.on))
    /\ call' = NoCall
    /\ UNCHANGED <<loop, connecting, ending, waiting, idle, inflight, delivering, acks, counts,
                   server, received, wanted, lost, revived>>

\* disconnect_inner(true, true) after CloseSession: close_channel.
FinishDisconnect ==
    /\ call.op = "disconnect" /\ call.at = "good"
    /\ hangup' = Online
    /\ call' = NoCall
    /\ UNCHANGED <<loop, connecting, failed, closing, reconnects, dropped, publishing, state,
                   counts, server, history>>

\* SessionDropGuard: its owner makes no further calls.
GuardDropped ==
    /\ "drop" \in Ops /\ ~dropped /\ call = NoCall /\ loop # "ended"
    /\ calls' = MaxCalls
    /\ dropped' = TRUE
    /\ UNCHANGED <<loop, connecting, failed, closing, hangup, reconnects, publishing, state, call,
                   created, losses, forgets, server, history>>

-----------------------------------------------------------------------------

\* The event loop has returned.
Ended == loop = "ended" /\ call = NoCall /\ UNCHANGED vars

PublishLoop ==
    TriggerArm \/ TriggerSkipped \/ TickArm \/ SendPublish \/ TakeResponse \/ FinishDelivery
    \/ TakeError
Server == Answer \/ TimeOut \/ Produce \/ ServerForgets
Connection ==
    KeepAlive \/ KeepAliveLost \/ Disconnecting \/ TransportClosed \/ LoopStops
Connecting ==
    BeginConnect \/ Connect \/ ConnectFails \/ Activate \/ Transfer \/ RecreateBegin \/ RecreateOk
    \/ RecreateFails \/ ActivationCut \/ Connected
User ==
    CallBegin \/ CallServed \/ CallFails \/ FinishCreate \/ FinishDelete \/ FinishMode
    \/ FinishDisconnect \/ GuardDropped

Next == PublishLoop \/ Server \/ Connection \/ Connecting \/ User \/ Ended

Spec == Init /\ [][Next]_vars

\* try_connect, one step after the other.
Connects ==
    BeginConnect \/ Connect \/ Activate \/ Transfer \/ RecreateBegin \/ RecreateOk \/ RecreateFails
    \/ Connected

\* The arms of the loop's select! are taken at random among the ready ones;
\* the server answers; keep-alives are sent for ever; a channel that was closed
\* is reported as such.
Fairness ==
    /\ WF_vars(TriggerArm \/ TickArm)
    /\ WF_vars(SendPublish \/ TakeResponse \/ FinishDelivery \/ TakeError)
    /\ WF_vars(Answer)
    /\ WF_vars(KeepAlive)
    /\ WF_vars(Disconnecting \/ (TransportClosed /\ hangup))
    /\ WF_vars(LoopStops)
    /\ WF_vars(Connects)

FairSpec == Spec /\ Fairness

-----------------------------------------------------------------------------
(* Properties *)

\* The kinds of value the variables take; at most one subscription is between two
\* tables, and only while subscriptions are being recreated.
TypeOK ==
    /\ loop \in {"disconnected", "connecting", "activating", "connected", "ended"}
    /\ step \in {"none", "activate", "transfer", "recreate"}
    /\ step # "none" => loop = "activating"
    /\ moving # NoMove => step = "recreate" /\ moving.id \notin todo
    /\ todo \subseteq SubIds /\ DOMAIN subs \subseteq 1..created
    /\ \A i \in DOMAIN inflight : inflight[i].at \in {"new", "sent", "done"}
    /\ delivering.at \in {0} \cup DOMAIN inflight
    /\ acks \cup acked \cup received \subseteq SubIds \X (1..MaxNotes)
    /\ served \cap orphans = {} /\ served \cup orphans \subseteq 1..created
    /\ tries \in 0..MaxTries /\ failed \in 0..MaxFailed

\* No acknowledgement is forgotten while the connection lasts: what the client
\* has taken is acknowledged, or queued, or on its way, also when the publish
\* request that carried it fails (publish and re_queue_acknowledgements).
AcksKept ==
    loop = "connected" =>
        received \subseteq acks \cup acked
                          \cup UNION {inflight[i].acks : i \in DOMAIN inflight}

\* The client keeps exactly the subscriptions its users want, in the publishing
\* mode they set, whatever a delivery, a user's call and a reconnect do at the
\* same time.  Excepted are those a failed recreation gave up, those recreated
\* although a user deleted them meanwhile, and the mode of those whose last
\* set_publishing_mode was answered Good while the recreation had them out of the
\* table or under a new id: the code does not find them and forgets the mode.
SubscriptionsKept ==
    /\ wanted \subseteq DOMAIN subs \cup {moving.id} \cup lost
    /\ DOMAIN subs \subseteq wanted \cup revived
    /\ \A s \in DOMAIN subs : subs[s].on = mode[s] \/ s \in missed

\* "Update all subscriptions where the returned status is good": without the last
\* exception, which the code does not keep.
ModesKept == \A s \in DOMAIN subs : subs[s].on = mode[s]

\* With a subscription and no word of the server that it has none, the client
\* does not stay without a publish request: no error, no back-off and no timing
\* of responses latches the publish loop (waiting_for_response).
PublishingContinues ==
    (loop = "connected" /\ ~idle /\ DOMAIN subs # {})
        ~> (inflight # <<>> \/ idle \/ loop # "connected" \/ DOMAIN subs = {})

\* A client whose session the server has lost finds out, and has a session again
\* or ends (keep-alive count, FatalFailure, reactivation, new session).
DeadSessionReplaced ==
    (loop = "connected" /\ ~session) ~> (loop = "connected" /\ session) \/ loop = "ended"

\* A connected client with subscriptions has a publish request on its way sooner or
\* later, also when they were transferred, recreated or created while the session was
\* being activated: "This is true if the client has received a no_subscriptions
\* response", "If this works then there is nothing else to do."
PublishingResumes ==
    (loop = "connected" /\ DOMAIN subs # {})
        ~> (inflight # <<>> \/ loop # "connected" \/ DOMAIN subs = {})
=============================================================================
